---- MODULE Spec2Model ----
(***************************************************************************)
(* Physics world of src/src/scene/physics.rs: the solver sets (bodies,     *)
(* colliders, joints), the three engine-handle <-> solver-handle tables,   *)
(* the handle-checked add/remove operations, generate_desc and resolve.    *)
(*                                                                         *)
(* Engine handles (Uuid::new_v4) are modelled as numbers drawn from a      *)
(* per-kind counter: a value that was never handed out before.  Solver     *)
(* handles are pairs <<index, generation>> of a generational arena.        *)
(* An Option<T> is the set {} (None) or {x} (Some(x)).                     *)
(***************************************************************************)
EXTENDS Integers, Sequences, FiniteSets, TLC

\* Number of engine handles (Uuid::new_v4 calls) that may be minted in one run.
MaxUuids == 4

\* Defining state of a body (position, velocities, status, sleeping),
\* abstracted to a tag.
BodyStates == {"p0", "p1"}

\* Shapes a caller may hand to add_collider.  geom is the bulk geometry of
\* a trimesh: "user" when supplied by the caller, "node" when baked from a
\* mesh node by make_trimesh, "fake" for the placeholder triangle.
\* A half-space stands for the shapes of the solver that ColliderShapeDesc
\* has no variant for.
ShapeInputs ==
    { [kind |-> "Ball", param |-> "r1", geom |-> "none"],
      [kind |-> "Trimesh", param |-> "none", geom |-> "user"],
      [kind |-> "HalfSpace", param |-> "n", geom |-> "none"] }

\* What a collider carries besides its shape (friction, restitution, sensor
\* flag, collision groups), abstracted to its friction coefficient.  These
\* are the coefficients a caller may write through collider_mut; 0.5 is the
\* one ColliderBuilder::new starts from and 0.0 the one mesh_to_trimesh sets.
Frictions == {"0.5", "1.0"}

\* ColliderBuilder::new(shape).build()
ColliderBuilder(shape) == [shape |-> shape, friction |-> "0.5"]

\* Joint parameters a caller may hand to add_joint.
JointParamInputs == {"BallJoint"}

\* Solver handles (slot, generation) a caller may pass to body_mut_rapier:
\* the first slot, in its first generation and in the one after a removal.
RigidBodyHandles == {<< 0, g >> : g \in 0..1}

\* Engine handles a caller may pass to collider_mut: the first one minted,
\* before it is minted, while its collider is live and after its removal.
MutColliderIds == {1}

\* Engine handles a caller may pass: every handle that can be minted, so
\* also handles never minted and handles of removed entities.
BodyIds == 1..MaxUuids
ColliderIds == 1..MaxUuids
JointIds == 1..MaxUuids

VARIABLES
    bodies,               \* RigidBodySet
    colliders,            \* ColliderSet
    joints,               \* JointSet
    body_handle_map,      \* BiDirHashMap<RigidBodyHandle, rapier RigidBodyHandle>
    collider_handle_map,  \* BiDirHashMap<ColliderHandle, rapier ColliderHandle>
    joint_handle_map,     \* BiDirHashMap<JointHandle, rapier JointHandle>
    desc,                 \* Option<PhysicsDesc>
    uuid,                 \* engine handles minted so far, per kind
    panic,                \* "none", or the call that panicked (unwrap, expect, index, assert)
    resolved,             \* the world was produced by resolve at some point
    minted,               \* history: every engine handle an add call returned
    live,                 \* history: the entities the caller created and did not remove
    embedded_resources,   \* Vec<ResourceLink>
    target_binder,        \* PhysicsBinder<Node> of the scene that owns the world
    query,                \* QueryPipeline: the collider handles in its tree
    output                \* what the last call returned or wrote, when it was
                          \* generate_desc, a visit in write mode or cast_ray;
                          \* {} otherwise

vars == << bodies, colliders, joints, body_handle_map, collider_handle_map,
           joint_handle_map, desc, uuid, panic, resolved, minted, live,
           embedded_resources, target_binder, query, output >>

world == << bodies, colliders, joints, body_handle_map, collider_handle_map,
            joint_handle_map, desc >>

-----------------------------------------------------------------------------
(* Generational arena behind RigidBodySet, ColliderSet and JointSet.        *)
(* items[i + 1] is slot i: {} when free, {[gen, val]} when occupied.  free  *)
(* is the stack of freed slots; untouched slots follow in ascending order.  *)

EmptyArena == [items |-> << >>, free |-> << >>, generation |-> 0]

ArenaNextHandle(a) ==
    << IF a.free = << >> THEN Len(a.items) ELSE Head(a.free), a.generation >>

ArenaInsert(a, v) ==
    LET e == {[gen |-> a.generation, val |-> v]}
    IN  IF a.free = << >>
        THEN [a EXCEPT !.items = Append(a.items, e)]
        ELSE [a EXCEPT !.items[Head(a.free) + 1] = e, !.free = Tail(a.free)]

ArenaGet(a, h) ==
    IF h[1] < Len(a.items)
    THEN {e.val : e \in {x \in a.items[h[1] + 1] : x.gen = h[2]}}
    ELSE {}

ArenaContains(a, h) == ArenaGet(a, h) # {}

\* Bug: the arena is not generational, a freed slot is handed out again
\* under the handle it had.
ArenaRemoveKeepsGeneration(a, h) ==
    IF ArenaContains(a, h)
    THEN [items |-> [a.items EXCEPT ![h[1] + 1] = {}],
          free |-> << h[1] >> \o a.free,
          generation |-> a.generation]
    ELSE a

\* Arena::remove: the slot is freed and the generation moves on.
ArenaRemove(a, h) ==
    IF ArenaContains(a, h)
    THEN [items |-> [a.items EXCEPT ![h[1] + 1] = {}],
          free |-> << h[1] >> \o a.free,
          generation |-> a.generation + 1]
    ELSE a

ArenaSet(a, h, v) ==
    [a EXCEPT !.items[h[1] + 1] = {[gen |-> h[2], val |-> v]}]

\* Handles of the occupied slots, in iteration (slot) order.
ArenaHandles(a) ==
    LET occ == SelectSeq([i \in 1..Len(a.items) |-> i], LAMBDA i : a.items[i] # {})
    IN  [k \in 1..Len(occ) |->
            << occ[k] - 1, (CHOOSE e \in a.items[occ[k]] : TRUE).gen >>]

ArenaLen(a) == Len(ArenaHandles(a))

ArenaHandleSet(a) == {ArenaHandles(a)[k] : k \in 1..ArenaLen(a)}

ArenaValue(a, h) == CHOOSE v \in ArenaGet(a, h) : TRUE

-----------------------------------------------------------------------------
(* Handle translation table: a forward map and a backward map, each a set   *)
(* of pairs.                                                                *)

EmptyMap == [fwd |-> {}, bwd |-> {}]

value_of(m, k) == {p[2] : p \in {q \in m.fwd : q[1] = k}}

key_of(m, v) == {p[2] : p \in {q \in m.bwd : q[1] = v}}

BiInsert(m, k, v) ==
    [fwd |-> {p \in m.fwd : p[1] # k} \cup {<< k, v >>},
     bwd |-> {p \in m.bwd : p[1] # v} \cup {<< v, k >>}]

remove_by_key(m, k) ==
    [fwd |-> {p \in m.fwd : p[1] # k},
     bwd |-> {p \in m.bwd : p[1] \notin value_of(m, k)}]

remove_by_value(m, v) ==
    [fwd |-> {p \in m.fwd : p[1] \notin key_of(m, v)},
     bwd |-> {p \in m.bwd : p[1] # v}]

Keys(m) == {p[1] : p \in m.fwd}

Values(m) == {p[2] : p \in m.fwd}

-----------------------------------------------------------------------------
(* Solver sets.                                                             *)

SwapRemove(s, i) ==
    IF i = Len(s)
    THEN SubSeq(s, 1, Len(s) - 1)
    ELSE SubSeq([s EXCEPT ![i] = s[Len(s)]], 1, Len(s) - 1)

IndexOf(s, x) == CHOOSE i \in 1..Len(s) : s[i] = x

InSeq(s, x) == \E i \in 1..Len(s) : s[i] = x

\* ColliderSet::insert: the collider enters the arena and is pushed to the
\* parent's collider list.  The parent must be live ("Parent rigid body not
\* found" otherwise); callers check that first.
ColliderSetInsert(cs, bs, collider, parent) ==
    LET h == ArenaNextHandle(cs)
        b == ArenaValue(bs, parent)
    IN  [colliders |-> ArenaInsert(cs, [shape |-> collider.shape,
                                         friction |-> collider.friction,
                                         parent |-> parent]),
         bodies |-> ArenaSet(bs, parent, [b EXCEPT !.colliders = Append(@, h)]),
         handle |-> h]

\* ColliderSet::remove: the collider leaves the arena and, when its parent
\* is still live, the parent's collider list (swap_remove).
ColliderSetRemove(cs, bs, h) ==
    IF ~ArenaContains(cs, h)
    THEN [colliders |-> cs, bodies |-> bs, removed |-> FALSE]
    ELSE LET p == ArenaValue(cs, h).parent
         IN  [colliders |-> ArenaRemove(cs, h),
              bodies |->
                IF ArenaContains(bs, p) /\ InSeq(ArenaValue(bs, p).colliders, h)
                THEN LET b == ArenaValue(bs, p)
                     IN  ArenaSet(bs, p, [b EXCEPT !.colliders =
                                            SwapRemove(@, IndexOf(@, h))])
                ELSE bs,
              removed |-> TRUE]

\* JointSet: an arena of edge indices (the JointHandle space) and the edge
\* array of the joint graph, which is what JointSet::iter walks.
EmptyJointSet == [ids |-> EmptyArena, edges |-> << >>]

JointSetInsert(js, b1, b2, params) ==
    LET h == ArenaNextHandle(js.ids)
    IN  [joints |-> [ids |-> ArenaInsert(js.ids, Len(js.edges)),
                     edges |-> Append(js.edges,
                                 [body1 |-> b1, body2 |-> b2,
                                  handle |-> h, params |-> params])],
         handle |-> h]

\* Removal of edge i (1-based): swap_remove on the edge array, then the
\* edge that took its place gets its index updated in the arena.
JointSetRemoveEdge(js, i) ==
    LET h == js.edges[i].handle
        edges2 == SwapRemove(js.edges, i)
        ids2 == ArenaRemove(js.ids, h)
    IN  [ids |-> IF i <= Len(edges2)
                 THEN ArenaSet(ids2, edges2[i].handle, i - 1)
                 ELSE ids2,
         edges |-> edges2]

JointSetRemove(js, h) ==
    IF ArenaContains(js.ids, h)
    THEN JointSetRemoveEdge(js, ArenaValue(js.ids, h) + 1)
    ELSE js

\* Bug: the joints attached to a removed body stay in the joint set.
RemoveJointsOfNone(js, b) == {js}

\* JointSet::remove_rigid_body: every joint attached to body b is removed,
\* one at a time.  The order is that of the joint graph's adjacency list;
\* all orders are allowed here.
RECURSIVE RemoveJointsOf(_, _)
RemoveJointsOf(js, b) ==
    LET att == {i \in 1..Len(js.edges) :
                    js.edges[i].body1 = b \/ js.edges[i].body2 = b}
    IN  IF att = {}
        THEN {js}
        ELSE UNION {RemoveJointsOf(JointSetRemoveEdge(js, i), b) : i \in att}

RECURSIVE RemoveColliders(_, _, _)
RemoveColliders(cs, bs, hs) ==
    IF hs = << >>
    THEN cs
    ELSE RemoveColliders(ColliderSetRemove(cs, bs, Head(hs)).colliders, bs, Tail(hs))

RECURSIVE RemoveValues(_, _)
RemoveValues(m, hs) ==
    IF hs = << >> THEN m ELSE RemoveValues(remove_by_value(m, Head(hs)), Tail(hs))

JointHandles(js) == [i \in 1..Len(js.edges) |-> js.edges[i].handle]

JointHandleSet(js) == {js.edges[i].handle : i \in 1..Len(js.edges)}

-----------------------------------------------------------------------------
(* Physics::new and the add / remove operations.                            *)

Minted == uuid.body + uuid.collider + uuid.joint

aborted == panic # "none"

Init ==
    /\ bodies = EmptyArena
    /\ colliders = EmptyArena
    /\ joints = EmptyJointSet
    /\ body_handle_map = EmptyMap
    /\ collider_handle_map = EmptyMap
    /\ joint_handle_map = EmptyMap
    /\ desc = {}
    /\ uuid = [body |-> 0, collider |-> 0, joint |-> 0]
    /\ panic = "none"
    /\ resolved = FALSE
    /\ minted = [body |-> {}, collider |-> {}, joint |-> {}]
    /\ live = [bodies |-> {}, colliders |-> {}, joints |-> {},
               cascaded_colliders |-> {}, cascaded_joints |-> {}]
    /\ embedded_resources = << >>
    /\ target_binder = EmptyMap
    /\ query = {}
    /\ output = {}

\* The part of the state that the add / remove operations, resolve and
\* deep_copy do not touch; their return value is not a descriptor set.
OthersUnchanged ==
    /\ output' = {}
    /\ UNCHANGED << embedded_resources, target_binder, query >>

Panic(op) ==
    /\ panic' = op
    /\ OthersUnchanged
    /\ UNCHANGED << bodies, colliders, joints, body_handle_map,
                    collider_handle_map, joint_handle_map, desc, uuid,
                    resolved, minted, live >>

\* Bug: the handle is derived from the number of entries in the table.
NewUuidFromCount(kind) ==
    Cardinality(IF kind = "body" THEN body_handle_map.fwd
                ELSE IF kind = "collider" THEN collider_handle_map.fwd
                ELSE joint_handle_map.fwd) + 1

\* Uuid::new_v4(): a handle of the given kind that was never produced before.
NewUuid(kind) == uuid[kind] + 1

\* self.body_handle_map.insert(id, handle)
add_body_register(id, handle) == BiInsert(body_handle_map, id, handle)

add_body_call(state) ==
    /\ ~aborted
    /\ OthersUnchanged
    /\ LET handle == ArenaNextHandle(bodies)
           id == NewUuid("body")
       IN  /\ bodies' = ArenaInsert(bodies, [state |-> state, colliders |-> << >>])
           /\ body_handle_map' = add_body_register(id, handle)
           /\ uuid' = [uuid EXCEPT !.body = @ + 1]
           /\ minted' = [minted EXCEPT !.body = @ \cup {id}]
           /\ live' = [live EXCEPT !.bodies = @ \cup {id}]
    /\ UNCHANGED << colliders, joints, collider_handle_map, joint_handle_map,
                    desc, panic, resolved >>

\* Physics::add_body, while the run may mint another handle.
add_body(state) == Minted < MaxUuids /\ add_body_call(state)

\* body_handle_map.value_of(rigid_body).and_then(|&h| bodies.remove(h, ..)):
\* the solver handle of the body that is removed, if any.
remove_body_lookup(rigid_body) ==
    {h \in value_of(body_handle_map, rigid_body) : ArenaContains(bodies, h)}

\* Bug: the whole collider table is dropped with the body.
remove_body_purges_every_collider(body_colliders) == EmptyMap

\* for collider in body.colliders() { collider_handle_map.remove_by_value(collider) }
remove_body_purge_colliders(body_colliders) ==
    RemoveValues(collider_handle_map, body_colliders)

\* Bug: the body's own entry is left in the table.
remove_body_keeps_body(rigid_body) == body_handle_map

\* self.body_handle_map.remove_by_key(rigid_body)
remove_body_purge_body(rigid_body) == remove_by_key(body_handle_map, rigid_body)

remove_body(rigid_body) ==
    /\ ~aborted
    /\ OthersUnchanged
    /\ LET found == remove_body_lookup(rigid_body)
       IN  IF found = {}
           THEN UNCHANGED << bodies, colliders, joints, body_handle_map,
                             collider_handle_map, joint_handle_map, live >>
           ELSE \E h \in found :
                LET body == ArenaValue(bodies, h)
                    bodies2 == ArenaRemove(bodies, h)
                IN  /\ bodies' = bodies2
                    /\ colliders' = RemoveColliders(colliders, bodies2, body.colliders)
                    /\ joints' \in RemoveJointsOf(joints, h)
                    /\ collider_handle_map' = remove_body_purge_colliders(body.colliders)
                    /\ body_handle_map' = remove_body_purge_body(rigid_body)
                    /\ UNCHANGED joint_handle_map
                    /\ live' =
                         LET cs == {c \in live.colliders : c[2] = rigid_body}
                             js == {j \in live.joints :
                                        j[2] = rigid_body \/ j[3] = rigid_body}
                         IN  [bodies |-> live.bodies \ {rigid_body},
                              colliders |-> live.colliders \ cs,
                              joints |-> live.joints \ js,
                              cascaded_colliders |->
                                    live.cascaded_colliders \cup {c[1] : c \in cs},
                              cascaded_joints |->
                                    live.cascaded_joints \cup {j[1] : j \in js}]
    /\ UNCHANGED << desc, uuid, panic, resolved, minted >>

\* Bug: the solver handle is registered without its generation.
add_collider_register_index(id, handle) ==
    BiInsert(collider_handle_map, id, << handle[1], 0 >>)

\* self.collider_handle_map.insert(id, handle)
add_collider_register(id, handle) == BiInsert(collider_handle_map, id, handle)

add_collider_call(collider, rigid_body) ==
    /\ ~aborted
    /\ LET parent == value_of(body_handle_map, rigid_body)
       IN  IF parent = {} \/ \E p \in parent : ~ArenaContains(bodies, p)
           THEN Panic("add_collider")
           ELSE \E p \in parent :
                LET r == ColliderSetInsert(colliders, bodies, collider, p)
                    id == NewUuid("collider")
                IN  /\ colliders' = r.colliders
                    /\ bodies' = r.bodies
                    /\ collider_handle_map' = add_collider_register(id, r.handle)
                    /\ uuid' = [uuid EXCEPT !.collider = @ + 1]
                    /\ minted' = [minted EXCEPT !.collider = @ \cup {id}]
                    /\ live' = [live EXCEPT !.colliders = @ \cup {<< id, rigid_body >>}]
                    /\ UNCHANGED << joints, body_handle_map, joint_handle_map,
                                    desc, panic, resolved >>
                    /\ OthersUnchanged

\* Physics::add_collider, while the run may mint another handle.
add_collider(collider, rigid_body) ==
    Minted < MaxUuids /\ add_collider_call(collider, rigid_body)

\* self.collider_handle_map.value_of(collider_handle)
remove_collider_lookup(collider_handle) ==
    value_of(collider_handle_map, collider_handle)

remove_collider(collider_handle) ==
    /\ ~aborted
    /\ OthersUnchanged
    /\ LET found == remove_collider_lookup(collider_handle)
           r == IF found = {}
                THEN [colliders |-> colliders, bodies |-> bodies, removed |-> FALSE]
                ELSE ColliderSetRemove(colliders, bodies, CHOOSE h \in found : TRUE)
       IN  /\ colliders' = r.colliders
           /\ bodies' = r.bodies
           /\ collider_handle_map' = remove_by_key(collider_handle_map, collider_handle)
           /\ live' = [live EXCEPT !.colliders =
                          {c \in @ : c[1] # collider_handle}]
    /\ UNCHANGED << joints, body_handle_map, joint_handle_map, desc, uuid,
                    panic, resolved, minted >>

\* self.joint_handle_map.insert(id, handle)
add_joint_register(id, handle) == BiInsert(joint_handle_map, id, handle)

\* Physics::add_joint.  The two unwraps need both bodies in the table;
\* JointSet::insert takes both bodies mutably at once and panics when they
\* are one body or when one of them is not live.
add_joint_call(body1, body2, joint_params) ==
    /\ ~aborted
    /\ LET b1 == value_of(body_handle_map, body1)
           b2 == value_of(body_handle_map, body2)
       IN  IF \/ b1 = {} \/ b2 = {} \/ b1 = b2
              \/ \E h \in b1 \cup b2 : ~ArenaContains(bodies, h)
           THEN Panic("add_joint")
           ELSE \E h1 \in b1, h2 \in b2 :
                LET r == JointSetInsert(joints, h1, h2, joint_params)
                    id == NewUuid("joint")
                IN  /\ joints' = r.joints
                    /\ joint_handle_map' = add_joint_register(id, r.handle)
                    /\ uuid' = [uuid EXCEPT !.joint = @ + 1]
                    /\ minted' = [minted EXCEPT !.joint = @ \cup {id}]
                    /\ live' = [live EXCEPT !.joints = @ \cup {<< id, body1, body2 >>}]
                    /\ UNCHANGED << bodies, colliders, body_handle_map,
                                    collider_handle_map, desc, panic, resolved >>
                    /\ OthersUnchanged

\* Physics::add_joint, while the run may mint another handle.
add_joint(body1, body2, joint_params) ==
    Minted < MaxUuids /\ add_joint_call(body1, body2, joint_params)

\* Physics::step: the pipeline integrates the live bodies.  Every body
\* keeps its slot, its generation and its collider list; its position and
\* velocity (state) move to some value, or stay for a body that is static
\* or at rest.  The sets of colliders and joints and the tables stay.
step ==
    /\ ~aborted
    /\ OthersUnchanged
    /\ \E f \in [ArenaHandleSet(bodies) -> BodyStates] :
            bodies' = [bodies EXCEPT !.items =
                        [i \in 1..Len(bodies.items) |->
                            {[e EXCEPT !.val.state = f[<< i - 1, e.gen >>]] :
                                e \in bodies.items[i]}]]
    /\ UNCHANGED << colliders, joints, body_handle_map, collider_handle_map,
                    joint_handle_map, desc, uuid, panic, resolved, minted, live >>

\* Physics::body_mut, and the caller's write through the &mut RigidBody it
\* returns: what the body behind the handle carries (position, velocities,
\* status, sleeping) becomes state; the body's collider list has no setter.
\* None, and no change, when the handle names no live body.
body_mut(handle, state) ==
    /\ ~aborted
    /\ OthersUnchanged
    /\ LET found == {h \in value_of(body_handle_map, handle) : ArenaContains(bodies, h)}
       IN  bodies' = IF found = {}
                     THEN bodies
                     ELSE LET h == CHOOSE x \in found : TRUE
                          IN  ArenaSet(bodies, h,
                                       [ArenaValue(bodies, h) EXCEPT !.state = state])
    /\ UNCHANGED << colliders, joints, body_handle_map, collider_handle_map,
                    joint_handle_map, desc, uuid, panic, resolved, minted, live >>

\* Physics::body_mut_rapier: the &mut RigidBody found by solver handle, with
\* no table lookup; the caller writes the body's defining state through it.
body_mut_rapier(handle, state) ==
    /\ ~aborted
    /\ OthersUnchanged
    /\ bodies' = IF ArenaContains(bodies, handle)
                 THEN ArenaSet(bodies, handle,
                               [ArenaValue(bodies, handle) EXCEPT !.state = state])
                 ELSE bodies
    /\ UNCHANGED << colliders, joints, body_handle_map, collider_handle_map,
                    joint_handle_map, desc, uuid, panic, resolved, minted, live >>

\* Physics::collider_mut: the &mut Collider of an engine handle, None when
\* the table or the solver does not know it; the caller writes the
\* collider's attributes through it (its shape and parent have no setter).
collider_mut(handle, friction) ==
    /\ ~aborted
    /\ OthersUnchanged
    /\ LET found == {h \in value_of(collider_handle_map, handle) :
                        ArenaContains(colliders, h)}
       IN  colliders' = IF found = {} THEN colliders
                        ELSE LET h == CHOOSE x \in found : TRUE
                             IN  ArenaSet(colliders, h,
                                          [ArenaValue(colliders, h) EXCEPT
                                                !.friction = friction])
    /\ UNCHANGED << bodies, joints, body_handle_map, collider_handle_map,
                    joint_handle_map, desc, uuid, panic, resolved, minted, live >>

\* Bug: a missing entry falls back to the default solver handle.
remove_joint_lookup_or_default(joint_handle) ==
    IF value_of(joint_handle_map, joint_handle) = {}
    THEN {<< 0, 0 >>}
    ELSE value_of(joint_handle_map, joint_handle)

\* self.joint_handle_map.value_of(joint_handle)
remove_joint_lookup(joint_handle) == value_of(joint_handle_map, joint_handle)

remove_joint(joint_handle) ==
    /\ ~aborted
    /\ OthersUnchanged
    /\ LET found == remove_joint_lookup(joint_handle)
           h == CHOOSE x \in found : TRUE
           hit == found # {} /\ ArenaContains(joints.ids, h)
       IN  /\ joints' = IF hit THEN JointSetRemove(joints, h) ELSE joints
           /\ joint_handle_map' = remove_by_key(joint_handle_map, joint_handle)
           /\ live' = [live EXCEPT !.joints = {j \in @ : j[1] # joint_handle}]
    /\ UNCHANGED << bodies, colliders, body_handle_map, collider_handle_map,
                    desc, uuid, panic, resolved, minted >>

-----------------------------------------------------------------------------
(* Descriptors.                                                             *)

\* ColliderShapeDesc::from_collider_shape ends in unreachable!(): a shape
\* that is none of the ten described kinds panics.
from_collider_shape_ok(shape) ==
    shape.kind \in {"Ball", "Cylinder", "RoundCylinder", "Cone", "Cuboid", "Capsule",
                    "Segment", "Triangle", "Trimesh", "Heightfield"}

\* ColliderShapeDesc::from_collider_shape: the variant and its parameters;
\* a trimesh or heightfield keeps no data.
from_collider_shape(shape) ==
    [kind |-> shape.kind,
     param |-> IF shape.kind \in {"Trimesh", "Heightfield"} THEN "none" ELSE shape.param]

\* ColliderShapeDesc::into_collider_shape: a trimesh becomes the fake triangle.
into_collider_shape(d) ==
    [kind |-> d.kind, param |-> d.param,
     geom |-> IF d.kind = "Trimesh" THEN "fake" ELSE "none"]

\* ColliderDesc::convert_to_collider: a collider built from the converted
\* shape with the attributes of the descriptor.
convert_to_collider(d) ==
    [ColliderBuilder(into_collider_shape(d.shape)) EXCEPT !.friction = d.friction]

\* Physics::make_trimesh: geometry baked from the mesh node.
make_trimesh == [kind |-> "Trimesh", param |-> "none", geom |-> "node"]

\* Physics::mesh_to_trimesh(root, graph), root being a node of the graph:
\* add_body of a static body at the node's global position (state), then
\* add_collider of the trimesh that make_trimesh bakes from the node, under
\* the body just added.  Two engine handles are minted in one call.
mesh_to_trimesh(state) ==
    /\ ~aborted
    /\ OthersUnchanged
    /\ LET handle == ArenaNextHandle(bodies)
           body_id == NewUuid("body")
           r == ColliderSetInsert(colliders,
                                  ArenaInsert(bodies, [state |-> state,
                                                       colliders |-> << >>]),
                                  [ColliderBuilder(make_trimesh) EXCEPT !.friction = "0.0"],
                                  handle)
           collider_id == NewUuid("collider")
       IN  /\ bodies' = r.bodies
           /\ colliders' = r.colliders
           /\ body_handle_map' = add_body_register(body_id, handle)
           /\ collider_handle_map' = add_collider_register(collider_id, r.handle)
           /\ uuid' = [uuid EXCEPT !.body = @ + 1, !.collider = @ + 1]
           /\ minted' = [minted EXCEPT !.body = @ \cup {body_id},
                                       !.collider = @ \cup {collider_id}]
           /\ live' = [live EXCEPT !.bodies = @ \cup {body_id},
                                   !.colliders = @ \cup {<< collider_id, body_id >>}]
    /\ UNCHANGED << joints, joint_handle_map, desc, panic, resolved >>

\* RigidBodyDesc::from_body; unwraps the engine handle of each collider.
from_body_ok(body, handle_map) ==
    \A i \in 1..Len(body.colliders) : key_of(handle_map, body.colliders[i]) # {}

from_body(body, handle_map) ==
    [state |-> body.state,
     colliders |-> [i \in 1..Len(body.colliders) |->
                        CHOOSE k \in key_of(handle_map, body.colliders[i]) : TRUE]]

convert_to_body(d) == [state |-> d.state, colliders |-> << >>]

\* ColliderDesc::from_collider; unwraps the engine handle of the parent.
from_collider_ok(collider, handle_map) == key_of(handle_map, collider.parent) # {}

from_collider(collider, handle_map) ==
    [shape |-> from_collider_shape(collider.shape),
     friction |-> collider.friction,
     parent |-> CHOOSE k \in key_of(handle_map, collider.parent) : TRUE]

\* JointDesc::from_joint; unwraps the engine handles of both bodies.
from_joint_ok(joint, handle_map) ==
    key_of(handle_map, joint.body1) # {} /\ key_of(handle_map, joint.body2) # {}

from_joint(joint, handle_map) ==
    [body1 |-> CHOOSE k \in key_of(handle_map, joint.body1) : TRUE,
     body2 |-> CHOOSE k \in key_of(handle_map, joint.body2) : TRUE,
     params |-> joint.params]

\* Bug: the dense handle keeps the slot index of the live solver handle.
DenseHandleFromSlot(handles, h) == << h[1], 0 >>

\* The dense handle of the entity at iteration position i (0-based) is (i, 0).
DenseHandle(handles, h) == << IndexOf(handles, h) - 1, 0 >>

\* Indexing the dense map with a table entry panics when the entry's solver
\* handle is not in the live set.
DenseOk(handles, map) == \A p \in map.fwd : InSeq(handles, p[2])

\* The tables built by inserting (engine handle, dense handle) for every
\* entry of the live table's forward map, in hash-map order: when two
\* engine handles share a solver handle, the backward entry is either's.
DenseMaps(handles, map) ==
    LET fwd == {<< p[1], DenseHandle(handles, p[2]) >> : p \in map.fwd}
        all == {<< p[2], p[1] >> : p \in fwd}
    IN  {[fwd |-> fwd, bwd |-> b] :
            b \in {x \in SUBSET all :
                    \A v \in {p[1] : p \in all} :
                        Cardinality({q \in x : q[1] = v}) = 1}}

generate_desc_ok ==
    /\ DenseOk(ArenaHandles(bodies), body_handle_map)
    /\ DenseOk(ArenaHandles(colliders), collider_handle_map)
    /\ DenseOk(JointHandles(joints), joint_handle_map)
    /\ \A h \in ArenaHandleSet(bodies) :
            from_body_ok(ArenaValue(bodies, h), collider_handle_map)
    /\ \A h \in ArenaHandleSet(colliders) :
            /\ from_collider_shape_ok(ArenaValue(colliders, h).shape)
            /\ from_collider_ok(ArenaValue(colliders, h), body_handle_map)
    /\ \A i \in 1..Len(joints.edges) : from_joint_ok(joints.edges[i], body_handle_map)

\* Physics::generate_desc: the set of descriptor sets it may return (one,
\* unless a table holds two engine handles for one solver handle).
generate_desc ==
    LET bh == ArenaHandles(bodies)
        ch == ArenaHandles(colliders)
    IN  {[bodies |-> [i \in 1..Len(bh) |->
                        from_body(ArenaValue(bodies, bh[i]), collider_handle_map)],
          colliders |-> [i \in 1..Len(ch) |->
                        from_collider(ArenaValue(colliders, ch[i]), body_handle_map)],
          joints |-> [i \in 1..Len(joints.edges) |->
                        from_joint(joints.edges[i], body_handle_map)],
          body_handle_map |-> bm,
          collider_handle_map |-> cm,
          joint_handle_map |-> jm] :
            bm \in DenseMaps(bh, body_handle_map),
            cm \in DenseMaps(ch, collider_handle_map),
            jm \in DenseMaps(JointHandles(joints), joint_handle_map)}

-----------------------------------------------------------------------------
(* Physics::resolve.                                                        *)

\* Physics::new(): the solver sets and the tables of a new Physics value.
NewPhysics ==
    [bodies |-> EmptyArena, colliders |-> EmptyArena, joints |-> EmptyJointSet,
     body_handle_map |-> EmptyMap, collider_handle_map |-> EmptyMap,
     joint_handle_map |-> EmptyMap]

\* What PhysicsBinder::node_of and Graph::is_valid_handle answer for a body.
BindStates == {"none", "valid", "invalid"}

RECURSIVE ResolveBodies(_, _)
ResolveBodies(ds, bs) ==
    IF ds = << >>
    THEN bs
    ELSE ResolveBodies(Tail(ds), ArenaInsert(bs, convert_to_body(Head(ds))))

\* Insertion of one collider under the body its parent handle maps to;
\* panics when the handle is not in the table or the body is not live.
ResolveInsert(st, collider, parent) ==
    LET p == value_of(st.body_handle_map, parent)
    IN  IF p = {} \/ \E h \in p : ~ArenaContains(st.bodies, h)
        THEN [st EXCEPT !.panic = TRUE]
        ELSE LET r == ColliderSetInsert(st.colliders, st.bodies, collider,
                                        CHOOSE h \in p : TRUE)
             IN  [st EXCEPT !.colliders = r.colliders, !.bodies = r.bodies]

RECURSIVE ResolveColliders(_, _, _)
ResolveColliders(ds, st, bind) ==
    IF ds = << >> \/ st.panic
    THEN st
    ELSE LET d == Head(ds)
             st2 == IF d.shape.kind = "Trimesh"
                    THEN IF bind[d.parent] = "none"
                         THEN [st EXCEPT !.skipped = @ + 1]
                         ELSE IF bind[d.parent] = "valid"
                              THEN ResolveInsert(st, ColliderBuilder(make_trimesh), d.parent)
                              ELSE [st EXCEPT !.skipped = @ + 1, !.errors = @ + 1]
                    ELSE ResolveInsert(st, convert_to_collider(d), d.parent)
         IN  ResolveColliders(Tail(ds), st2, bind)

RECURSIVE ResolveJoints(_, _)
ResolveJoints(ds, st) ==
    IF ds = << >> \/ st.panic
    THEN st
    ELSE LET d == Head(ds)
             b1 == value_of(st.body_handle_map, d.body1)
             b2 == value_of(st.body_handle_map, d.body2)
             st2 == IF \/ b1 = {} \/ b2 = {} \/ b1 = b2
                       \/ \E h \in b1 \cup b2 : ~ArenaContains(st.bodies, h)
                    THEN [st EXCEPT !.panic = TRUE]
                    ELSE [st EXCEPT !.joints =
                            JointSetInsert(@, CHOOSE h \in b1 : TRUE,
                                           CHOOSE h \in b2 : TRUE, d.params).joints]
         IN  ResolveJoints(Tail(ds), st2)

\* Bug: the colliders are materialized before the bodies.
resolve_colliders_before_bodies(phys, phys_desc, bind) ==
    LET st0 == [bodies |-> phys.bodies,
                colliders |-> phys.colliders,
                joints |-> phys.joints,
                body_handle_map |-> phys_desc.body_handle_map,
                collider_handle_map |-> phys_desc.collider_handle_map,
                joint_handle_map |-> phys_desc.joint_handle_map,
                skipped |-> 0, errors |-> 0, panic |-> FALSE]
        st1 == ResolveColliders(phys_desc.colliders, st0, bind)
    IN  ResolveJoints(phys_desc.joints,
                      [st1 EXCEPT !.bodies = ResolveBodies(phys_desc.bodies, @)])

\* resolve on the world phys, which holds phys_desc: the tables are those of
\* the descriptor set, and bodies, colliders and joints are inserted into
\* the solver sets phys has, whose freed slots and generations stay.
resolve(phys, phys_desc, bind) ==
    LET st0 == [bodies |-> ResolveBodies(phys_desc.bodies, phys.bodies),
                colliders |-> phys.colliders,
                joints |-> phys.joints,
                body_handle_map |-> phys_desc.body_handle_map,
                collider_handle_map |-> phys_desc.collider_handle_map,
                joint_handle_map |-> phys_desc.joint_handle_map,
                skipped |-> 0, errors |-> 0, panic |-> FALSE]
    IN  ResolveJoints(phys_desc.joints,
                      ResolveColliders(phys_desc.colliders, st0, bind))

\* Bindings that differ only on bodies that own no trimesh collider resolve
\* alike; those bodies are left unbound.
Bindings ==
    LET owners == {p[1] : p \in {q \in body_handle_map.fwd :
                        \E h \in ArenaHandleSet(colliders) :
                            /\ ArenaValue(colliders, h).parent = q[2]
                            /\ ArenaValue(colliders, h).shape.kind = "Trimesh"}}
    IN  {[b \in BodyIds |-> IF b \in owners THEN g[b] ELSE "none"] :
            g \in [owners -> BindStates]}

\* Physics::deep_copy: a new world resolved from generate_desc of this one;
\* the model goes on with the copy.
deep_copy(bind) ==
    /\ ~aborted
    /\ IF ~generate_desc_ok
       THEN Panic("deep_copy")
       ELSE \E d \in generate_desc :
            LET r == resolve(NewPhysics, d, bind)
            IN  IF r.panic
                THEN Panic("deep_copy")
                ELSE /\ bodies' = r.bodies
                     /\ colliders' = r.colliders
                     /\ joints' = r.joints
                     /\ body_handle_map' = r.body_handle_map
                     /\ collider_handle_map' = r.collider_handle_map
                     /\ joint_handle_map' = r.joint_handle_map
                     /\ desc' = {}
                     /\ resolved' = TRUE
                     /\ live' = [bodies |-> {}, colliders |-> {}, joints |-> {},
                                 cascaded_colliders |-> {}, cascaded_joints |-> {}]
                     /\ UNCHANGED << uuid, panic, minted >>
                     /\ OthersUnchanged

-----------------------------------------------------------------------------
\* Handle-checked accessors.
body(handle) ==
    UNION {ArenaGet(bodies, h) : h \in value_of(body_handle_map, handle)}

contains_body(handle) == body(handle) # {}

collider(handle) ==
    UNION {ArenaGet(colliders, h) : h \in value_of(collider_handle_map, handle)}

contains_collider(handle) == collider(handle) # {}

collider_parent(handle) ==
    UNION {key_of(body_handle_map, c.parent) : c \in collider(handle)}

Next ==
    \/ \E s \in BodyStates : add_body(s)
    \/ \E h \in BodyIds : remove_body(h)
    \/ \E s \in ShapeInputs, h \in BodyIds : add_collider(ColliderBuilder(s), h)
    \/ \E h \in ColliderIds : remove_collider(h)
    \/ \E h1 \in BodyIds : \E h2 \in BodyIds : \E p \in JointParamInputs :
            add_joint(h1, h2, p)
    \/ \E h \in JointIds : remove_joint(h)
    \/ \E s \in BodyStates : Minted + 1 < MaxUuids /\ mesh_to_trimesh(s)
    \/ \E bind \in Bindings : deep_copy(bind)
    \/ step
    \/ \E h \in BodyIds, st \in BodyStates : body_mut(h, st)
    \/ \E h \in RigidBodyHandles, st \in BodyStates : body_mut_rapier(h, st)
    \/ \E h \in MutColliderIds, f \in Frictions : collider_mut(h, f)

Spec == Init /\ [][Next]_vars

-----------------------------------------------------------------------------
(* generate_desc as a call of its own, and impl Visit for Physics.          *)

\* Number of engine handles that may be minted in a run that saves and loads.
MaxSaveUuids == 3

\* The parts of the state a call that takes &self leaves alone, the pending
\* descriptor aside.
SelfUnchanged ==
    UNCHANGED << bodies, colliders, joints, body_handle_map, collider_handle_map,
                 joint_handle_map, uuid, panic, resolved, minted, live,
                 embedded_resources, target_binder, query >>

\* Bug: the pending descriptor is taken, as resolve does.
generate_desc_takes_pending == {}

\* generate_desc takes &self: the pending descriptor stays where it is.
generate_desc_pending == desc

\* A caller (the editor, Physics::visit, deep_copy) invokes generate_desc.
call_generate_desc ==
    /\ ~aborted
    /\ IF ~generate_desc_ok
       THEN Panic("generate_desc")
       ELSE \E d \in generate_desc :
            /\ output' = {[op |-> "generate_desc", data |-> d]}
            /\ desc' = generate_desc_pending
            /\ SelfUnchanged

\* A descriptor set an editor stores in the public desc field.
EditorDescs ==
    {[bodies |-> << [state |-> "p1", colliders |-> << >>] >>,
      colliders |-> << >>,
      joints |-> << >>,
      body_handle_map |-> BiInsert(EmptyMap, 1, << 0, 0 >>),
      collider_handle_map |-> EmptyMap,
      joint_handle_map |-> EmptyMap]}

\* physics.desc = Some(d)
set_desc(d) ==
    /\ ~aborted
    /\ desc' = {d}
    /\ output' = {}
    /\ SelfUnchanged

\* ErasedHandle::new(index as u32, gen as u32): the casts keep every index
\* and generation below 2^32, which is all of them here.
ErasedHandleNew(h) == << h[1], h[2] >>

\* PhysicsDesc::visit, writing: a handle map is written as the hash map of
\* its forward entries, every solver handle as an ErasedHandle.
HandleMapWrite(m) == {<< p[1], ErasedHandleNew(p[2]) >> : p \in m.fwd}

\* PhysicsDesc::visit, reading: BiDirHashMap::from(hash map); when two keys
\* share a value the backward entry is either's.
HandleMapRead(h) ==
    LET all == {<< p[2], p[1] >> : p \in h}
    IN  {[fwd |-> h, bwd |-> b] :
            b \in {x \in SUBSET all :
                    \A v \in {p[1] : p \in all} :
                        Cardinality({q \in x : q[1] = v}) = 1}}

PhysicsDescWrite(d) ==
    [bodies |-> d.bodies, colliders |-> d.colliders, joints |-> d.joints,
     body_handle_map |-> HandleMapWrite(d.body_handle_map),
     collider_handle_map |-> HandleMapWrite(d.collider_handle_map),
     joint_handle_map |-> HandleMapWrite(d.joint_handle_map)]

PhysicsDescRead(w) ==
    {[bodies |-> w.bodies, colliders |-> w.colliders, joints |-> w.joints,
      body_handle_map |-> bm, collider_handle_map |-> cm, joint_handle_map |-> jm] :
        bm \in HandleMapRead(w.body_handle_map),
        cm \in HandleMapRead(w.collider_handle_map),
        jm \in HandleMapRead(w.joint_handle_map)}

\* Bug: the descriptor set is always generated from live state.
visit_write_desc_always_generated == generate_desc

\* The descriptor set Physics::visit writes: the one in desc when there is
\* one, else generate_desc().
visit_write_desc == IF desc # {} THEN desc ELSE generate_desc

\* Physics::visit with a writing visitor.
visit_write ==
    /\ ~aborted
    /\ IF desc = {} /\ ~generate_desc_ok
       THEN Panic("visit")
       ELSE \E d \in visit_write_desc :
            /\ output' = {[op |-> "visit",
                           data |-> [desc |-> PhysicsDescWrite(d),
                                     embedded_resources |-> embedded_resources]]}
            /\ UNCHANGED desc
            /\ SelfUnchanged

\* Physics::default() visited with a reading visitor that holds what the
\* last visit wrote; the model goes on with the world that was read.
visit_read ==
    /\ ~aborted
    /\ \E o \in output :
        /\ o.op = "visit"
        /\ \E d \in PhysicsDescRead(o.data.desc) :
            /\ bodies' = EmptyArena
            /\ colliders' = EmptyArena
            /\ joints' = EmptyJointSet
            /\ body_handle_map' = EmptyMap
            /\ collider_handle_map' = EmptyMap
            /\ joint_handle_map' = EmptyMap
            /\ desc' = {d}
            /\ embedded_resources' = o.data.embedded_resources
    /\ output' = {}
    /\ live' = [bodies |-> {}, colliders |-> {}, joints |-> {},
                cascaded_colliders |-> {}, cascaded_joints |-> {}]
    /\ UNCHANGED << uuid, panic, resolved, minted, target_binder, query >>

NextSave ==
    \/ \E s \in BodyStates : Minted < MaxSaveUuids /\ add_body(s)
    \/ \E h \in BodyIds : remove_body(h)
    \/ \E s \in ShapeInputs, h \in BodyIds : Minted < MaxSaveUuids /\ add_collider(ColliderBuilder(s), h)
    \/ \E h \in ColliderIds : remove_collider(h)
    \/ \E h1 \in BodyIds : \E h2 \in BodyIds : \E p \in JointParamInputs :
            Minted < MaxSaveUuids /\ add_joint(h1, h2, p)
    \/ \E h \in JointIds : remove_joint(h)
    \/ \E s \in {"p0"} : Minted + 1 < MaxSaveUuids /\ mesh_to_trimesh(s)
    \/ \E d \in EditorDescs : set_desc(d)
    \/ call_generate_desc
    \/ visit_write
    \/ visit_read
    \/ step
    \/ \E h \in BodyIds, st \in BodyStates : body_mut(h, st)
    \/ \E h \in RigidBodyHandles, st \in BodyStates : body_mut_rapier(h, st)
    \/ \E h \in MutColliderIds, f \in Frictions : collider_mut(h, f)

SpecSave == Init /\ [][NextSave]_vars


-----------------------------------------------------------------------------
(* Physics::resolve as a call of its own, on the world that holds the       *)
(* pending descriptor set.                                                  *)

\* What the binder and the graph answer for the bodies of a descriptor
\* set: bodies that own no trimesh descriptor are left unbound.
DescBindings(d) ==
    LET owners == {d.colliders[i].parent :
                        i \in {k \in 1..Len(d.colliders) :
                                    d.colliders[k].shape.kind = "Trimesh"}}
    IN  {[b \in BodyIds |-> IF b \in owners THEN g[b] ELSE "none"] :
            g \in [owners \cap BodyIds -> BindStates]}

\* The two assert_eq! at the head of resolve and the unwrap of desc.take().
resolve_accepts ==
    /\ ArenaLen(bodies) = 0
    /\ ArenaLen(colliders) = 0
    /\ desc # {}

\* Bug: the descriptor set is cloned and stays pending.
resolve_clones_desc(phys_desc) == {phys_desc}

\* self.desc.take(): the world holds no descriptor set afterwards.
resolve_take_desc(phys_desc) == {}

\* Physics::resolve(binder, graph).  A panic in one of the loops leaves the
\* tables restored and the sets filled up to that point.
call_resolve ==
    /\ ~aborted
    /\ IF ~resolve_accepts
       THEN Panic("resolve")
       ELSE \E d \in desc : \E bind \in DescBindings(d) :
            LET r == resolve([bodies |-> bodies, colliders |-> colliders,
                              joints |-> joints], d, bind)
            IN  /\ bodies' = r.bodies
                /\ colliders' = r.colliders
                /\ joints' = r.joints
                /\ body_handle_map' = r.body_handle_map
                /\ collider_handle_map' = r.collider_handle_map
                /\ joint_handle_map' = r.joint_handle_map
                /\ desc' = resolve_take_desc(d)
                /\ panic' = IF r.panic THEN "resolve" ELSE "none"
                /\ resolved' = TRUE
                /\ live' = [bodies |-> {}, colliders |-> {}, joints |-> {},
                            cascaded_colliders |-> {}, cascaded_joints |-> {}]
                /\ UNCHANGED << uuid, minted >>
                /\ OthersUnchanged

NextLoad ==
    \/ \E s \in BodyStates : Minted < MaxSaveUuids /\ add_body(s)
    \/ \E h \in BodyIds : remove_body(h)
    \/ \E s \in ShapeInputs, h \in BodyIds : Minted < MaxSaveUuids /\ add_collider(ColliderBuilder(s), h)
    \/ \E h \in ColliderIds : remove_collider(h)
    \/ \E h1 \in BodyIds : \E h2 \in BodyIds : \E p \in JointParamInputs :
            Minted < MaxSaveUuids /\ add_joint(h1, h2, p)
    \/ \E h \in JointIds : remove_joint(h)
    \/ \E s \in {"p0"} : Minted + 1 < MaxSaveUuids /\ mesh_to_trimesh(s)
    \/ visit_write
    \/ visit_read
    \/ call_resolve
    \/ step
    \/ \E h \in BodyIds, st \in BodyStates : body_mut(h, st)
    \/ \E h \in RigidBodyHandles, st \in BodyStates : body_mut_rapier(h, st)
    \/ \E h \in MutColliderIds, f \in Frictions : collider_mut(h, f)

SpecLoad == Init /\ [][NextLoad]_vars

-----------------------------------------------------------------------------
(* Physics::embed_resource.                                                 *)

\* std HashMap, as a set of (key, value) pairs.
HashInsert(m, k, v) == {p \in m : p[1] # k} \cup {<< k, v >>}

HashGet(m, k) == {p[2] : p \in {q \in m : q[1] = k}}

\* Physics::add_body on the Physics value w, id being the handle minted.
WorldAddBody(w, id, rigid_body) ==
    [w EXCEPT !.bodies = ArenaInsert(@, rigid_body),
              !.body_handle_map = BiInsert(@, id, ArenaNextHandle(w.bodies))]

\* Physics::add_collider on w; the unwrap and rapier's expect need the
\* parent in the table and live.
WorldAddColliderOk(w, rigid_body) ==
    /\ value_of(w.body_handle_map, rigid_body) # {}
    /\ \A h \in value_of(w.body_handle_map, rigid_body) : ArenaContains(w.bodies, h)

WorldAddCollider(w, id, new_collider, rigid_body) ==
    LET r == ColliderSetInsert(w.colliders, w.bodies, new_collider,
                               CHOOSE h \in value_of(w.body_handle_map, rigid_body) : TRUE)
    IN  [w EXCEPT !.colliders = r.colliders,
                  !.bodies = r.bodies,
                  !.collider_handle_map = BiInsert(@, id, r.handle)]

\* Physics::add_joint on w.
WorldAddJointOk(w, body1, body2) ==
    /\ value_of(w.body_handle_map, body1) # {}
    /\ value_of(w.body_handle_map, body2) # {}
    /\ value_of(w.body_handle_map, body1) # value_of(w.body_handle_map, body2)
    /\ \A h \in value_of(w.body_handle_map, body1) \cup value_of(w.body_handle_map, body2) :
            ArenaContains(w.bodies, h)

WorldAddJoint(w, id, body1, body2, joint_params) ==
    LET r == JointSetInsert(w.joints,
                            CHOOSE h \in value_of(w.body_handle_map, body1) : TRUE,
                            CHOOSE h \in value_of(w.body_handle_map, body2) : TRUE,
                            joint_params)
    IN  [w EXCEPT !.joints = r.joints,
                  !.joint_handle_map = BiInsert(@, id, r.handle)]

\* Physics::remove_body on w, for a body that has no joint.
WorldRemoveBody(w, rigid_body) ==
    LET found == {h \in value_of(w.body_handle_map, rigid_body) :
                    ArenaContains(w.bodies, h)}
    IN  IF found = {}
        THEN w
        ELSE LET h == CHOOSE x \in found : TRUE
                 rb == ArenaValue(w.bodies, h)
                 bodies2 == ArenaRemove(w.bodies, h)
             IN  [w EXCEPT !.bodies = bodies2,
                           !.colliders = RemoveColliders(@, bodies2, rb.colliders),
                           !.collider_handle_map = RemoveValues(@, rb.colliders),
                           !.body_handle_map = remove_by_key(@, rigid_body)]

\* Engine handles of a resource: minted in another world, so different from
\* every handle of the host.
ResourceUuid(n) == 0 - n

ResBall == [kind |-> "Ball", param |-> "r1", geom |-> "none"]

ResTrimesh == [kind |-> "Trimesh", param |-> "none", geom |-> "user"]

ResBody(state) == [state |-> state, colliders |-> << >>]

\* One body with one trimesh collider.
ResourceTrimesh ==
    WorldAddCollider(WorldAddBody(NewPhysics, ResourceUuid(1), ResBody("p1")),
                     ResourceUuid(1), ColliderBuilder(ResTrimesh), ResourceUuid(1))

\* One body with a ball and a trimesh collider.
ResourceBallTrimesh ==
    WorldAddCollider(
        WorldAddCollider(WorldAddBody(NewPhysics, ResourceUuid(1), ResBody("p1")),
                         ResourceUuid(1), ColliderBuilder(ResBall), ResourceUuid(1)),
        ResourceUuid(2), ColliderBuilder(ResTrimesh), ResourceUuid(1))

\* Two bodies, a ball collider on the second.
ResourceTwoBodies ==
    WorldAddCollider(
        WorldAddBody(WorldAddBody(NewPhysics, ResourceUuid(1), ResBody("p0")),
                     ResourceUuid(2), ResBody("p1")),
        ResourceUuid(1), ColliderBuilder(ResBall), ResourceUuid(2))

\* A body in slot 1 with a ball collider; the body of slot 0 was removed.
ResourceHole ==
    WorldAddCollider(
        WorldRemoveBody(
            WorldAddBody(WorldAddBody(NewPhysics, ResourceUuid(1), ResBody("p0")),
                         ResourceUuid(2), ResBody("p1")),
            ResourceUuid(1)),
        ResourceUuid(1), ColliderBuilder(ResBall), ResourceUuid(2))

\* Two bodies connected by a joint.
ResourceJoint ==
    WorldAddJoint(
        WorldAddBody(WorldAddBody(NewPhysics, ResourceUuid(1), ResBody("p0")),
                     ResourceUuid(2), ResBody("p1")),
        ResourceUuid(1), ResourceUuid(1), ResourceUuid(2), "BallJoint")

\* The physics worlds of the resources that may be embedded.
Resources ==
    {ResourceTrimesh, ResourceBallTrimesh, ResourceTwoBodies, ResourceHole,
     ResourceJoint}

\* What the resource's binder, old_to_new and the target graph hold for a
\* body of the resource: no node bound to it ("unbound"); a node bound and
\* remapped to a node that is valid in the target graph ("valid") or not
\* ("invalid"); a node bound that old_to_new has no entry for ("unmapped").
NodeStates == {"unbound", "valid", "invalid", "unmapped"}

EmbedNodes(resource) == [Keys(resource.body_handle_map) -> NodeStates]

\* The node of the resource's graph that the resource's binder binds to
\* body b.
ResourceNode(b) == "node" \o ToString(0 - b)

\* Bug: the node of the resource is bound instead of its copy.
NewNodeIsResourceNode(n, b) == ResourceNode(b)

\* *old_to_new.get(handle): the copy, made for the n-th embed, of the node
\* bound to body b of the resource.
NewNode(n, b) == ResourceNode(b) \o "copy" \o ToString(n)

\* Bug: the geometry of the resource's collider is kept.
make_trimesh_keeps_geometry(root) == ResTrimesh

\* Self::make_trimesh(associated_node, target_graph): geometry baked from
\* the node root.
make_trimesh_from(root) == [make_trimesh EXCEPT !.geom = root]

\* Bug: the collider goes to the first body the link knows.
embed_first_linked_body(link, parent) ==
    {x \in {p[2] : p \in link.bodies} : \A y \in {p[2] : p \in link.bodies} : x <= y}

\* link.bodies.get(&desc.parent)
embed_remapped_parent(link, parent) == HashGet(link.bodies, parent)

\* Upper bound of the engine handles one embed mints.
EmbedMints(resource) ==
    ArenaLen(resource.bodies) + ArenaLen(resource.colliders) + Len(resource.joints.edges)

EmptyLink == [bodies |-> {}, colliders |-> {}, joints |-> {}]

\* Bug: the body table of the host is rebuilt with the new entry alone.
embed_add_body_forgets_table(w, id, rigid_body) ==
    [w EXCEPT !.bodies = ArenaInsert(@, rigid_body),
              !.body_handle_map = BiInsert(EmptyMap, id, ArenaNextHandle(w.bodies))]

\* self.add_body(desc.convert_to_body()) in the first loop of embed_resource.
embed_add_body(w, id, rigid_body) == WorldAddBody(w, id, rigid_body)

\* "Instantiate rigid bodies."
RECURSIVE EmbedBodies(_, _, _)
EmbedBodies(hs, st, resource) ==
    IF hs = << >> \/ st.panic
    THEN st
    ELSE LET rb == ArenaValue(resource.bodies, Head(hs))
             key == key_of(resource.body_handle_map, Head(hs))
             id == st.uuid.body + 1
         IN  IF ~from_body_ok(rb, resource.collider_handle_map)
             THEN [st EXCEPT !.panic = TRUE]
             ELSE LET d == from_body(rb, resource.collider_handle_map)
                      st1 == [st EXCEPT !.w = embed_add_body(@, id, convert_to_body(d)),
                                        !.uuid.body = id]
                  IN  IF key = {}
                      THEN [st1 EXCEPT !.panic = TRUE]
                      ELSE EmbedBodies(Tail(hs),
                              [st1 EXCEPT !.link.bodies =
                                    HashInsert(@, CHOOSE k \in key : TRUE, id)],
                              resource)

\* "Bind instantiated nodes with their respective rigid bodies from
\* resource."  The hash map is walked in any order: when an unwrap fails,
\* any set of the other nodes may have been bound before.
EmbedBind(st, nodes, n) ==
    LET bound == {b \in DOMAIN nodes : nodes[b] # "unbound"}
        bad == {b \in bound : nodes[b] = "unmapped" \/ HashGet(st.link.bodies, b) = {}}
        Bind(bs) == [fwd |-> {p \in st.binder.fwd : p[1] \notin {NewNode(n, b) : b \in bs}}
                             \cup {<< NewNode(n, b), CHOOSE x \in HashGet(st.link.bodies, b) : TRUE >> :
                                        b \in bs},
                     bwd |-> {p \in st.binder.bwd :
                                p[1] \notin UNION {HashGet(st.link.bodies, b) : b \in bs}}
                             \cup {<< CHOOSE x \in HashGet(st.link.bodies, b) : TRUE, NewNode(n, b) >> :
                                        b \in bs}]
    IN  IF st.panic
        THEN {st}
        ELSE IF bad = {}
             THEN {[st EXCEPT !.binder = Bind(bound)]}
             ELSE {[st EXCEPT !.binder = Bind(bs), !.panic = TRUE] :
                        bs \in SUBSET (bound \ bad)}

\* "Instantiate colliders."
RECURSIVE EmbedColliders(_, _, _, _, _)
EmbedColliders(hs, st, resource, nodes, n) ==
    IF hs = << >> \/ st.panic
    THEN st
    ELSE LET c == ArenaValue(resource.colliders, Head(hs))
             key == key_of(resource.collider_handle_map, Head(hs))
             id == st.uuid.collider + 1
         IN  IF \/ ~from_collider_shape_ok(c.shape)
                \/ ~from_collider_ok(c, resource.body_handle_map)
             THEN [st EXCEPT !.panic = TRUE]
             ELSE
             LET d == from_collider(c, resource.body_handle_map)
                 remapped == embed_remapped_parent(st.link, d.parent)
             IN  IF remapped = {}
                 THEN [st EXCEPT !.panic = TRUE]
                 ELSE
                 LET remapped_parent == CHOOSE x \in remapped : TRUE
                     associated_node == key_of(st.binder, remapped_parent)
                     trimesh == d.shape.kind = "Trimesh" /\ associated_node # {}
                     valid == \E node \in associated_node : \E b \in DOMAIN nodes :
                                    node = NewNode(n, b) /\ nodes[b] = "valid"
                     new_collider ==
                        IF trimesh
                        THEN ColliderBuilder(
                                make_trimesh_from(CHOOSE node \in associated_node : TRUE))
                        ELSE convert_to_collider(d)
                 IN  IF trimesh /\ ~valid
                     THEN EmbedColliders(Tail(hs), [st EXCEPT !.errors = @ + 1],
                                         resource, nodes, n)
                     ELSE IF ~WorldAddColliderOk(st.w, remapped_parent)
                     THEN [st EXCEPT !.panic = TRUE]
                     ELSE
                     LET st1 == [st EXCEPT
                                    !.w = WorldAddCollider(@, id, new_collider, remapped_parent),
                                    !.uuid.collider = id,
                                    !.added = @ \cup {<< id, remapped_parent >>}]
                     IN  IF key = {}
                         THEN [st1 EXCEPT !.panic = TRUE]
                         ELSE EmbedColliders(Tail(hs),
                                [st1 EXCEPT !.link.colliders =
                                    IF trimesh
                                    THEN HashInsert(@, id, CHOOSE k \in key : TRUE)
                                    ELSE HashInsert(@, CHOOSE k \in key : TRUE, id)],
                                resource, nodes, n)

\* "Instantiate joints."
RECURSIVE EmbedJoints(_, _, _)
EmbedJoints(js, st, resource) ==
    IF js = << >> \/ st.panic
    THEN st
    ELSE LET jt == Head(js)
             k1 == key_of(st.w.body_handle_map, jt.body1)
             k2 == key_of(st.w.body_handle_map, jt.body2)
             n1 == UNION {HashGet(st.link.bodies, k) : k \in k1}
             n2 == UNION {HashGet(st.link.bodies, k) : k \in k2}
             key == key_of(resource.joint_handle_map, jt.handle)
             id == st.uuid.joint + 1
         IN  IF \/ ~from_joint_ok(jt, resource.body_handle_map)
                \/ n1 = {} \/ n2 = {}
             THEN [st EXCEPT !.panic = TRUE]
             ELSE
             LET new_body1_handle == CHOOSE x \in n1 : TRUE
                 new_body2_handle == CHOOSE x \in n2 : TRUE
             IN  IF ~WorldAddJointOk(st.w, new_body1_handle, new_body2_handle)
                 THEN [st EXCEPT !.panic = TRUE]
                 ELSE
                 LET st1 == [st EXCEPT
                                !.w = WorldAddJoint(@, id, new_body1_handle,
                                                    new_body2_handle,
                                                    from_joint(jt, resource.body_handle_map).params),
                                !.uuid.joint = id,
                                !.joined = @ \cup {<< id, new_body1_handle, new_body2_handle >>}]
                 IN  IF key = {}
                     THEN [st1 EXCEPT !.panic = TRUE]
                     ELSE EmbedJoints(Tail(js),
                            [st1 EXCEPT !.link.joints =
                                HashInsert(@, CHOOSE k \in key : TRUE, id)],
                            resource)

\* The states embed_resource may end in: all four loops done, or the state
\* at the unwrap that panicked.
EmbedOutcomes(resource, nodes) ==
    LET n == Len(embedded_resources) + 1
        st0 == [w |-> [bodies |-> bodies, colliders |-> colliders, joints |-> joints,
                       body_handle_map |-> body_handle_map,
                       collider_handle_map |-> collider_handle_map,
                       joint_handle_map |-> joint_handle_map],
                uuid |-> uuid, link |-> EmptyLink, binder |-> target_binder,
                added |-> {}, joined |-> {}, errors |-> 0, panic |-> FALSE]
        st1 == EmbedBodies(ArenaHandles(resource.bodies), st0, resource)
    IN  {EmbedJoints(resource.joints.edges,
                     EmbedColliders(ArenaHandles(resource.colliders), st2,
                                    resource, nodes, n),
                     resource) : st2 \in EmbedBind(st1, nodes, n)}

\* Bug: the link is pushed before it is filled.
embed_resource_push_empty(link) == Append(embedded_resources, EmptyLink)

\* self.embedded_resources.push(link)
embed_resource_push(link) == Append(embedded_resources, link)

embed_resource(resource, nodes) ==
    /\ ~aborted
    /\ Minted + EmbedMints(resource) <= MaxUuids
    /\ \E st \in EmbedOutcomes(resource, nodes) :
        /\ bodies' = st.w.bodies
        /\ colliders' = st.w.colliders
        /\ joints' = st.w.joints
        /\ body_handle_map' = st.w.body_handle_map
        /\ collider_handle_map' = st.w.collider_handle_map
        /\ joint_handle_map' = st.w.joint_handle_map
        /\ uuid' = st.uuid
        /\ target_binder' = st.binder
        /\ panic' = IF st.panic THEN "embed_resource" ELSE "none"
        /\ embedded_resources' =
                IF st.panic THEN embedded_resources ELSE embed_resource_push(st.link)
        /\ minted' = [body |-> minted.body \cup (uuid.body + 1)..st.uuid.body,
                      collider |-> minted.collider \cup (uuid.collider + 1)..st.uuid.collider,
                      joint |-> minted.joint \cup (uuid.joint + 1)..st.uuid.joint]
        /\ live' = [live EXCEPT !.bodies = @ \cup (uuid.body + 1)..st.uuid.body,
                                !.colliders = @ \cup st.added,
                                !.joints = @ \cup st.joined]
    /\ output' = {}
    /\ UNCHANGED << desc, resolved, query >>

NextEmbed ==
    \/ \E s \in BodyStates : add_body(s)
    \/ \E h \in BodyIds : remove_body(h)
    \/ \E resource \in Resources : \E nodes \in EmbedNodes(resource) :
            embed_resource(resource, nodes)

SpecEmbed == Init /\ [][NextEmbed]_vars

\* Number of engine handles the host may mint by itself before a resource
\* is embedded into it.
MaxHostUuids == 3

\* One body, no collider, no joint.
ResourceBody == WorldAddBody(NewPhysics, ResourceUuid(1), ResBody("p1"))

\* The resources embedded into a host that holds bodies, colliders and
\* joints of its own.
HostResources == {ResourceBody, ResourceTrimesh, ResourceTwoBodies, ResourceJoint}

\* embed_resource on a host built by the add and remove operations: the
\* host is built first, resources are embedded into it afterwards.
NextEmbedHost ==
    \/ /\ embedded_resources = << >>
       /\ \/ \E s \in BodyStates : Minted < MaxHostUuids /\ add_body(s)
          \/ \E h \in BodyIds : remove_body(h)
          \/ \E s \in ShapeInputs, h \in BodyIds : Minted < MaxHostUuids /\ add_collider(ColliderBuilder(s), h)
          \/ \E h \in ColliderIds : remove_collider(h)
          \/ \E h1 \in BodyIds : \E h2 \in BodyIds : \E p \in JointParamInputs :
                Minted < MaxHostUuids /\ add_joint(h1, h2, p)
          \/ \E h \in JointIds : remove_joint(h)
    \/ \E resource \in HostResources : \E nodes \in EmbedNodes(resource) :
            embed_resource(resource, nodes)

SpecEmbedHost == Init /\ [][NextEmbedHost]_vars

-----------------------------------------------------------------------------
(* Physics::cast_ray and the two QueryResultsStorage implementations.       *)

\* Number of engine handles that may be minted in a run that casts rays.
MaxRayUuids == 3

\* The capacities of the fixed-capacity storages rays are cast into: CAP is
\* a const generic of ArrayVec<Intersection, CAP>, which the caller chooses.
Caps == {1, 2}

\* Largest distance (toi) of an intersection, in units of length.
MaxToi == 3

Tois == 1..MaxToi

\* The ray misses the collider.
NoHit == 0

\* RayCastOptions: max_len and sort_results (origin, direction and groups
\* are in RayHits).
RayCastOptions == [max_len : {2, 3}, sort_results : BOOLEAN]

\* The implementations of QueryResultsStorage: Vec<Intersection>, whose cap
\* is not read, and ArrayVec<Intersection, CAP> for each CAP.
Storages ==
    {[type |-> "Vec", cap |-> 0]} \cup {[type |-> "ArrayVec", cap |-> c] : c \in Caps}

\* Where the ray meets each collider of the tree, if at all: what origin,
\* direction, groups and the colliders' positions and shapes determine.
RayHits(q) == [q -> Tois \cup {NoHit}]

\* The orders in which the walk may come to the colliders of q.
Orders(q) ==
    {o \in [1..Cardinality(q) -> q] : \A i, j \in 1..Cardinality(q) : i # j => o[i] # o[j]}

\* Bug: the tree is built by the first cast only.
QueryUpdateOnce(q, collider_set) ==
    IF q = {} THEN ArenaHandleSet(collider_set) ELSE q

\* query.update(&self.bodies, &self.colliders): the tree is rebuilt from
\* the colliders of the set.
QueryUpdate(q, collider_set) == ArenaHandleSet(collider_set)

\* Bug: the ArrayVec storage overwrites its last element when it is full.
StoragePushOverwrites(storage, kind, intersection) ==
    IF kind.type = "Vec" \/ Len(storage) < kind.cap
    THEN [storage |-> Append(storage, intersection), ok |-> TRUE]
    ELSE [storage |-> [storage EXCEPT ![Len(storage)] = intersection], ok |-> TRUE]

\* QueryResultsStorage::push: Vec::push and true, or ArrayVec::try_push(..).is_ok().
StoragePush(storage, kind, intersection) ==
    IF kind.type = "Vec" \/ Len(storage) < kind.cap
    THEN [storage |-> Append(storage, intersection), ok |-> TRUE]
    ELSE [storage |-> storage, ok |-> FALSE]

\* The comparison closure of cast_ray: a goes after b.
ToiGreater(a, b) == a.toi > b.toi

\* Bug: the comparison is on the collider handle.
InsertByHandle(sorted, x) ==
    LET before == SelectSeq(sorted, LAMBDA y : ~(y.collider > x.collider))
        after == SelectSeq(sorted, LAMBDA y : y.collider > x.collider)
    IN  before \o << x >> \o after

\* x put into a sorted sequence, after the elements that are not greater.
InsertByToi(sorted, x) ==
    LET before == SelectSeq(sorted, LAMBDA y : ~ToiGreater(y, x))
        after == SelectSeq(sorted, LAMBDA y : ToiGreater(y, x))
    IN  before \o << x >> \o after

\* QueryResultsStorage::sort_intersections_by: slice::sort_by, a stable sort.
RECURSIVE sort_intersections_by(_)
sort_intersections_by(storage) ==
    IF storage = << >>
    THEN << >>
    ELSE InsertByToi(sort_intersections_by(SubSeq(storage, 1, Len(storage) - 1)),
                     storage[Len(storage)])

\* query.intersections_with_ray with the callback of cast_ray: the tree is
\* walked in the order hs (the colliders the ray misses are never come to,
\* whatever their place); a collider the ray meets farther than max_len is
\* passed over; a collider the ray meets within max_len is handed to the
\* callback, which unwraps its engine handle and pushes the
\* intersection; the walk stops when the callback returns false.
RECURSIVE intersections_with_ray(_, _, _, _, _)
intersections_with_ray(hs, st, hits, max_len, kind) ==
    IF hs = << >> \/ st.panic \/ st.stopped
    THEN st
    ELSE LET h == Head(hs)
             key == key_of(collider_handle_map, h)
         IN  IF hits[h] = NoHit
             THEN intersections_with_ray(Tail(hs), st, hits, max_len, kind)
             ELSE IF hits[h] > max_len
             THEN intersections_with_ray(Tail(hs), st, hits, max_len, kind)
             ELSE IF ~ArenaContains(colliders, h)
             THEN [st EXCEPT !.panic = TRUE]
             ELSE IF key = {}
             THEN [st EXCEPT !.panic = TRUE]
             ELSE LET r == StoragePush(st.storage, kind,
                                       [collider |-> CHOOSE k \in key : TRUE,
                                        toi |-> hits[h]])
                  IN  intersections_with_ray(Tail(hs),
                            [st EXCEPT !.storage = r.storage,
                                       !.met = @ + 1,
                                       !.rejected = IF r.ok THEN @ ELSE @ + 1,
                                       !.stopped = ~r.ok],
                            hits, max_len, kind)

\* Physics::cast_ray(opts, query_buffer), query_buffer being of the kind
\* given; the buffer is cleared first, so its content before the call does
\* not matter.
cast_ray(opts, kind, hits, order) ==
    /\ ~aborted
    /\ LET q == QueryUpdate(query, colliders)
           st == intersections_with_ray(order,
                    [storage |-> << >>, met |-> 0, rejected |-> 0,
                     stopped |-> FALSE, panic |-> FALSE],
                    hits, opts.max_len, kind)
       IN  /\ query' = q
           /\ panic' = IF st.panic THEN "cast_ray" ELSE panic
           /\ output' =
                IF st.panic
                THEN {}
                ELSE {[op |-> "cast_ray",
                       data |-> [opts |-> opts, kind |-> kind,
                                 pushed |-> st.storage,
                                 met |-> st.met,
                                 rejected |-> st.rejected,
                                 storage |-> IF opts.sort_results
                                             THEN sort_intersections_by(st.storage)
                                             ELSE st.storage]]}
    /\ UNCHANGED << bodies, colliders, joints, body_handle_map, collider_handle_map,
                    joint_handle_map, desc, uuid, resolved, minted, live,
                    embedded_resources, target_binder >>

\* The bodies and shapes of the worlds rays are cast into; where the ray
\* meets a collider is drawn by RayHits, whatever the body and the shape.
RayBodyStates == {"p0"}

RayShapeInputs == {[kind |-> "Ball", param |-> "r1", geom |-> "none"]}

NextRay ==
    \/ \E s \in RayBodyStates : Minted < MaxRayUuids /\ add_body(s)
    \/ \E h \in BodyIds : remove_body(h)
    \/ \E s \in RayShapeInputs, h \in BodyIds : Minted < MaxRayUuids /\ add_collider(ColliderBuilder(s), h)
    \/ \E h \in ColliderIds : remove_collider(h)
    \/ \E opts \in RayCastOptions, kind \in Storages :
        \E hits \in RayHits(QueryUpdate(query, colliders)) :
            \E order \in Orders({h \in QueryUpdate(query, colliders) : hits[h] # NoHit}) :
                cast_ray(opts, kind, hits, order)
    \/ step
    \/ \E h \in BodyIds, st \in BodyStates : body_mut(h, st)
    \/ \E h \in RigidBodyHandles, st \in BodyStates : body_mut_rapier(h, st)
    \/ \E h \in MutColliderIds, f \in Frictions : collider_mut(h, f)

SpecRay == Init /\ [][NextRay]_vars

-----------------------------------------------------------------------------
(* impl Visit for PhysicsDesc and for the descriptor enums, as functions    *)
(* between descriptor sets and what the visitor holds.  A body descriptor   *)
(* is reduced to its status, a collider descriptor to its shape, a joint    *)
(* descriptor to its parameters.                                            *)

\* Largest number of descriptors of a kind in a descriptor set that is
\* written or read.
MaxWireLen == 2

BodyStatusDescs == {"Dynamic", "Static", "Kinematic"}

ColliderShapeDescs ==
    {"Ball", "Cylinder", "RoundCylinder", "Cone", "Cuboid", "Capsule", "Segment",
     "Triangle", "Trimesh", "Heightfield"}

JointParamsDescs == {"BallJoint", "FixedJoint", "PrismaticJoint", "RevoluteJoint"}

\* The discriminants a visitor may hold for a status, a shape, a joint.
BodyStatusIds == 0..3

ColliderShapeIds == 0..10

JointParamsIds == 0..4

\* BodyStatusDesc::id: self as u32.
BodyStatusDescId(v) ==
    CASE v = "Dynamic" -> 0
      [] v = "Static" -> 1
      [] v = "Kinematic" -> 2

\* Bug: an unknown discriminant reads as the default status.
BodyStatusDescFromIdOrDefault(id) ==
    CASE id = 0 -> {"Dynamic"}
      [] id = 1 -> {"Static"}
      [] id = 2 -> {"Kinematic"}
      [] OTHER -> {"Dynamic"}

\* BodyStatusDesc::from_id: {} is Err.
BodyStatusDescFromId(id) ==
    CASE id = 0 -> {"Dynamic"}
      [] id = 1 -> {"Static"}
      [] id = 2 -> {"Kinematic"}
      [] OTHER -> {}

\* ColliderShapeDesc::id
ColliderShapeDescId(v) ==
    CASE v = "Ball" -> 0
      [] v = "Cylinder" -> 1
      [] v = "RoundCylinder" -> 2
      [] v = "Cone" -> 3
      [] v = "Cuboid" -> 4
      [] v = "Capsule" -> 5
      [] v = "Segment" -> 6
      [] v = "Triangle" -> 7
      [] v = "Trimesh" -> 8
      [] v = "Heightfield" -> 9

\* ColliderShapeDesc::from_id: {} is Err.
ColliderShapeDescFromId(id) ==
    CASE id = 0 -> {"Ball"}
      [] id = 1 -> {"Cylinder"}
      [] id = 2 -> {"RoundCylinder"}
      [] id = 3 -> {"Cone"}
      [] id = 4 -> {"Cuboid"}
      [] id = 5 -> {"Capsule"}
      [] id = 6 -> {"Segment"}
      [] id = 7 -> {"Triangle"}
      [] id = 8 -> {"Trimesh"}
      [] id = 9 -> {"Heightfield"}
      [] OTHER -> {}

\* JointParamsDesc::id
JointParamsDescId(v) ==
    CASE v = "BallJoint" -> 0
      [] v = "FixedJoint" -> 1
      [] v = "PrismaticJoint" -> 2
      [] v = "RevoluteJoint" -> 3

\* JointParamsDesc::from_id: {} is Err.
JointParamsDescFromId(id) ==
    CASE id = 0 -> {"BallJoint"}
      [] id = 1 -> {"FixedJoint"}
      [] id = 2 -> {"PrismaticJoint"}
      [] id = 3 -> {"RevoluteJoint"}
      [] OTHER -> {}

\* The shape variants whose descriptor has no field.
Bulk == {"Trimesh", "Heightfield"}

\* impl Visit for BodyStatusDesc, writing and reading.
BodyStatusVisitWrite(v) == BodyStatusDescId(v)

BodyStatusVisitRead(id) == BodyStatusDescFromId(id)

\* impl Visit for ColliderShapeDesc: the id, then the fields of the variant.
ColliderShapeVisitWrite(shape) ==
    [id |-> ColliderShapeDescId(shape.kind),
     data |-> IF shape.kind \in Bulk THEN "none" ELSE shape.param]

ColliderShapeVisitRead(b) ==
    {[kind |-> k, param |-> IF k \in Bulk THEN "none" ELSE b.data] :
        k \in ColliderShapeDescFromId(b.id)}

\* impl Visit for JointParamsDesc: the id, then "Data".
JointParamsVisitWrite(params) ==
    [id |-> JointParamsDescId(params.kind), data |-> params.param]

JointParamsVisitRead(b) ==
    {[kind |-> k, param |-> b.data] : k \in JointParamsDescFromId(b.id)}

\* Vec<T>::visit, reading with the element reader R: the first Err is
\* returned.
VecVisitRead(R(_), items) ==
    IF \E i \in 1..Len(items) : R(items[i]) = {}
    THEN {}
    ELSE {[i \in 1..Len(items) |-> CHOOSE x \in R(items[i]) : TRUE]}

\* HashMap<K, V>::visit, writing: the entries in the order the hash map
\* iterates them, which std leaves unspecified and which differs from one
\* hash map to the next.
HashMapVisitWrite(h) ==
    {o \in [1..Cardinality(h) -> h] :
        \A i, j \in 1..Cardinality(h) : i # j => o[i] # o[j]}

\* HashMap<K, V>::visit, reading: the entries are inserted in turn.
HashMapVisitRead(items) ==
    {items[i] : i \in {k \in 1..Len(items) :
                        \A j \in (k + 1)..Len(items) : items[j][1] # items[k][1]}}

\* Uuid::from_bytes(transmute([i as u64, 0u64])): the engine handle made up
\* for position i.
FallbackUuid(i) == i

\* Bug: every made-up entry names solver slot 0.
HandleMapFallbackSlotZero(n) == {<< FallbackUuid(i), << 0, 0 >> >> : i \in 0..(n - 1)}

\* The hash map made up when the handle map field cannot be read:
\* (0..len).map(|i| (handle of i, ErasedHandle::new(i as u32, 0))).
HandleMapFallback(n) == {<< FallbackUuid(i), << i, 0 >> >> : i \in 0..(n - 1)}

\* A handle map field, reading: {} is a field that is missing.
HandleMapVisitRead(field, n) ==
    IF field = {}
    THEN HandleMapFallback(n)
    ELSE HashMapVisitRead(CHOOSE items \in field : TRUE)

\* impl Visit for PhysicsDesc, reading: {} is Err.
PhysicsDescVisitRead(b) ==
    LET cs == VecVisitRead(ColliderShapeVisitRead, b.colliders)
        bs == VecVisitRead(BodyStatusVisitRead, b.bodies)
        js == VecVisitRead(JointParamsVisitRead, b.joints)
    IN  IF cs = {} \/ bs = {} \/ js = {}
        THEN {}
        ELSE {[bodies |-> CHOOSE x \in bs : TRUE,
               colliders |-> CHOOSE x \in cs : TRUE,
               joints |-> CHOOSE x \in js : TRUE,
               body_handle_map |-> bm,
               collider_handle_map |-> cm,
               joint_handle_map |-> jm] :
                bm \in HandleMapRead(HandleMapVisitRead(b.body_handle_map, Len(b.bodies))),
                cm \in HandleMapRead(HandleMapVisitRead(b.collider_handle_map,
                                                        Len(b.colliders))),
                jm \in HandleMapRead(HandleMapVisitRead(b.joint_handle_map, Len(b.joints)))}

\* impl Visit for PhysicsDesc, writing: what the visitor may hold afterwards.
PhysicsDescVisitWrite(d) ==
    {[bodies |-> [i \in 1..Len(d.bodies) |-> BodyStatusVisitWrite(d.bodies[i])],
      colliders |-> [i \in 1..Len(d.colliders) |-> ColliderShapeVisitWrite(d.colliders[i])],
      joints |-> [i \in 1..Len(d.joints) |-> JointParamsVisitWrite(d.joints[i])],
      body_handle_map |-> {bm},
      collider_handle_map |-> {cm},
      joint_handle_map |-> {jm}] :
        bm \in HashMapVisitWrite(HandleMapWrite(d.body_handle_map)),
        cm \in HashMapVisitWrite(HandleMapWrite(d.collider_handle_map)),
        jm \in HashMapVisitWrite(HandleMapWrite(d.joint_handle_map))}

\* The sequences over S of length at most n.
SeqsUpTo(S, n) == UNION {[1..k -> S] : k \in 0..n}

\* The table generate_desc makes for n entities: engine handle i + 1 for
\* dense solver handle (i, 0).
DenseTable(n) ==
    [fwd |-> {<< i + 1, << i, 0 >> >> : i \in 0..(n - 1)},
     bwd |-> {<< << i, 0 >>, i + 1 >> : i \in 0..(n - 1)}]

\* The same entries as the sequence a visitor holds, in ascending order.
DenseItems(n) == [k \in 1..n |-> << k, << k - 1, 0 >> >>]

\* Descriptor sets that are written, read back and written again.
WireDescs ==
    {[bodies |-> bs, colliders |-> cs, joints |-> js,
      body_handle_map |-> DenseTable(Len(bs)),
      collider_handle_map |-> DenseTable(Len(cs)),
      joint_handle_map |-> DenseTable(Len(js))] :
        bs \in SeqsUpTo({"Dynamic", "Static"}, MaxWireLen),
        cs \in SeqsUpTo({[kind |-> "Ball", param |-> "r1"],
                         [kind |-> "Trimesh", param |-> "none"]}, 1),
        js \in SeqsUpTo({[kind |-> "BallJoint", param |-> "a1"]}, 1)}

\* What a visitor may hold that this code did not write: one descriptor of
\* each kind (two colliders at most) with any discriminant.
ForeignEnums ==
    {[bodies |-> << s >>, colliders |-> cs, joints |-> << [id |-> j, data |-> "a1"] >>,
      body_handle_map |-> {DenseItems(1)},
      collider_handle_map |-> {DenseItems(Len(cs))},
      joint_handle_map |-> {DenseItems(1)}] :
        s \in BodyStatusIds, j \in JointParamsIds,
        cs \in {<< [id |-> c, data |-> "r1"] >> : c \in ColliderShapeIds}
               \cup {<< [id |-> 0, data |-> "r1"], [id |-> c, data |-> "r1"] >> :
                        c \in {8, 10}}}

\* What a visitor may hold that this code did not write: a save in which
\* any of the three handle map fields is missing.
ForeignMaps ==
    {[bodies |-> bs, colliders |-> cs, joints |-> js,
      body_handle_map |-> IF miss[1] THEN {} ELSE {DenseItems(Len(bs))},
      collider_handle_map |-> IF miss[2] THEN {} ELSE {DenseItems(Len(cs))},
      joint_handle_map |-> IF miss[3] THEN {} ELSE {DenseItems(Len(js))}] :
        bs \in SeqsUpTo({0}, MaxWireLen),
        cs \in SeqsUpTo({[id |-> 0, data |-> "r1"]}, MaxWireLen),
        js \in SeqsUpTo({[id |-> 0, data |-> "a1"]}, MaxWireLen),
        miss \in [1..3 -> BOOLEAN]}

\* A descriptor set to write, or a visitor to read from.
WireInputs ==
    {[op |-> "desc", data |-> [desc |-> d, first |-> {}]] : d \in WireDescs}
    \cup {[op |-> "visitor", data |-> [held |-> b, first |-> {}, written |-> FALSE]] :
            b \in ForeignEnums \cup ForeignMaps}

InitWire ==
    /\ bodies = EmptyArena
    /\ colliders = EmptyArena
    /\ joints = EmptyJointSet
    /\ body_handle_map = EmptyMap
    /\ collider_handle_map = EmptyMap
    /\ joint_handle_map = EmptyMap
    /\ desc = {}
    /\ uuid = [body |-> 0, collider |-> 0, joint |-> 0]
    /\ panic = "none"
    /\ resolved = FALSE
    /\ minted = [body |-> {}, collider |-> {}, joint |-> {}]
    /\ live = [bodies |-> {}, colliders |-> {}, joints |-> {},
               cascaded_colliders |-> {}, cascaded_joints |-> {}]
    /\ embedded_resources = << >>
    /\ target_binder = EmptyMap
    /\ query = {}
    /\ output \in {{x} : x \in WireInputs}

\* Everything but output.
WireUnchanged ==
    UNCHANGED << bodies, colliders, joints, body_handle_map, collider_handle_map,
                 joint_handle_map, desc, uuid, panic, resolved, minted, live,
                 embedded_resources, target_binder, query >>

\* desc.visit("Desc", visitor) with a writing visitor, for a descriptor set
\* that was given or read from what this code wrote; first is what the
\* first write left in the visitor.
desc_visit_write ==
    /\ \E o \in output :
        /\ o.op = "desc"
        /\ \E held \in PhysicsDescVisitWrite(o.data.desc) :
            output' = {[op |-> "visitor",
                        data |-> [held |-> held, first |-> o.data.first,
                                  written |-> TRUE]]}
    /\ WireUnchanged

\* desc.visit("Desc", visitor) with a reading visitor, desc being
\* Default::default().
desc_visit_read ==
    /\ \E o \in output :
        /\ o.op = "visitor"
        /\ o.data.first = {}
        /\ LET r == PhysicsDescVisitRead(o.data.held)
           IN  IF r = {}
               THEN output' = {[op |-> "error", data |-> [held |-> o.data.held]]}
               ELSE \E d \in r :
                    output' = {[op |-> IF o.data.written THEN "desc" ELSE "read",
                                data |-> [desc |-> d, held |-> o.data.held,
                                          first |-> {o.data.held}]]}
    /\ WireUnchanged

NextWire == desc_visit_write \/ desc_visit_read

SpecWire == InitWire /\ [][NextWire]_vars

-----------------------------------------------------------------------------
(* Physics::make_trimesh over a scene graph.                                *)

\* Number of nodes of the graphs make_trimesh is called on.
MaxGraphNodes == 3

GraphNodes == 1..MaxGraphNodes

\* Number of triangles the surfaces of a mesh node may hold.
TriCounts == {0, 1, 2}

\* A node: Node::Mesh with the triangles of its surfaces, or another kind.
NodeContents ==
    {[mesh |-> FALSE, tris |-> 0]} \cup {[mesh |-> TRUE, tris |-> k] : k \in TriCounts}

\* node.children of every node, for the trees in which the parent of a
\* node has a smaller handle.
GraphChildren ==
    {[n \in GraphNodes |->
        SelectSeq([i \in 1..MaxGraphNodes |-> i],
                  LAMBDA c : c > 1 /\ parent[c] = n)] :
        parent \in {p \in [GraphNodes -> 0..MaxGraphNodes] :
                        p[1] = 0 /\ \A c \in GraphNodes \ {1} : p[c] \in 1..(c - 1)}}

Graphs == [nodes : [GraphNodes -> NodeContents], children : GraphChildren]

\* The triangles of a mesh node, transformed into the space of the root:
\* triangle k of node h.
NodeTriangles(graph, h) ==
    IF graph.nodes[h].mesh
    THEN [k \in 1..graph.nodes[h].tris |-> << h, k >>]
    ELSE << >>

\* Bug: the children of a node are not visited.
NoChildren(graph, h) == << >>

\* node.children.as_slice()
Children(graph, h) == graph.children[h]

\* The loop of make_trimesh: the stack is popped from its end, the
\* triangles of a mesh node are inserted, the children are pushed.
RECURSIVE TrimeshWalk(_, _, _)
TrimeshWalk(stack, triangles, graph) ==
    IF stack = << >>
    THEN triangles
    ELSE LET handle == stack[Len(stack)]
         IN  TrimeshWalk(SubSeq(stack, 1, Len(stack) - 1) \o Children(graph, handle),
                         triangles \o NodeTriangles(graph, handle),
                         graph)

\* Physics::make_trimesh(root, graph) for a valid root: the shape, and the
\* number of warnings written to the log.
make_trimesh_graph(root, graph) ==
    LET indices == TrimeshWalk(<< root >>, << >>, graph)
    IN  IF indices = << >>
        THEN [shape |-> [kind |-> "Trimesh", param |-> "none", geom |-> "fake"],
              warnings |-> 1]
        ELSE [shape |-> [kind |-> "Trimesh", param |-> "none", geom |-> indices],
              warnings |-> 0]

InitTrimesh ==
    /\ bodies = EmptyArena
    /\ colliders = EmptyArena
    /\ joints = EmptyJointSet
    /\ body_handle_map = EmptyMap
    /\ collider_handle_map = EmptyMap
    /\ joint_handle_map = EmptyMap
    /\ desc = {}
    /\ uuid = [body |-> 0, collider |-> 0, joint |-> 0]
    /\ panic = "none"
    /\ resolved = FALSE
    /\ minted = [body |-> {}, collider |-> {}, joint |-> {}]
    /\ live = [bodies |-> {}, colliders |-> {}, joints |-> {},
               cascaded_colliders |-> {}, cascaded_joints |-> {}]
    /\ embedded_resources = << >>
    /\ target_binder = EmptyMap
    /\ query = {}
    /\ output \in {{[op |-> "graph", data |-> [root |-> root, graph |-> graph]]} :
                        root \in GraphNodes, graph \in Graphs}

\* A call of the associated function Physics::make_trimesh.
call_make_trimesh ==
    /\ \E o \in output :
        /\ o.op = "graph"
        /\ output' = {[op |-> "make_trimesh",
                       data |-> [root |-> o.data.root, graph |-> o.data.graph,
                                 result |-> make_trimesh_graph(o.data.root, o.data.graph)]]}
    /\ WireUnchanged

NextTrimesh == call_make_trimesh

SpecTrimesh == InitTrimesh /\ [][NextTrimesh]_vars

-----------------------------------------------------------------------------
(* Descriptors and live values: shapes and joint parameters with their     *)
(* parameter values.                                                        *)

\* f32 parameters.
Scalars == {1, 2}

\* Vector3<f32> parameters; every vector lies on an axis.
Vectors == {<< 1, 0, 0 >>, << 0, 1, 0 >>, << 2, 0, 0 >>, << 0, 0, 0 >>}

\* UnitQuaternion<f32> parameters.
Rotations == {"identity", "quarter_turn"}

Abs(x) == IF x < 0 THEN 0 - x ELSE x

\* The norm of a vector that lies on an axis.
Norm(v) == Abs(v[1]) + Abs(v[2]) + Abs(v[3])

\* The f32 NaN, a value that no parameter of the model takes.
NaN == 0 - 99

\* Unit::new_normalize(v): v divided by its norm; the division of zero by
\* zero is NaN.
new_normalize(v) ==
    IF Norm(v) = 0
    THEN << NaN, NaN, NaN >>
    ELSE [i \in 1..3 |-> v[i] \div Norm(v)]

\* The values of ColliderShapeDesc.
ShapeDescInputs ==
    {[kind |-> "Ball", param |-> [radius |-> r]] : r \in Scalars}
    \cup {[kind |-> "Cylinder", param |-> [half_height |-> h, radius |-> r]] :
            h \in Scalars, r \in Scalars}
    \cup {[kind |-> "RoundCylinder",
           param |-> [half_height |-> h, radius |-> r, border_radius |-> b]] :
            h \in Scalars, r \in Scalars, b \in Scalars}
    \cup {[kind |-> "Cone", param |-> [half_height |-> h, radius |-> r]] :
            h \in Scalars, r \in Scalars}
    \cup {[kind |-> "Cuboid", param |-> [half_extents |-> e]] : e \in Vectors}
    \cup {[kind |-> "Capsule", param |-> [begin |-> a, end |-> b, radius |-> r]] :
            a \in Vectors, b \in Vectors, r \in Scalars}
    \cup {[kind |-> "Segment", param |-> [begin |-> a, end |-> b]] :
            a \in Vectors, b \in Vectors}
    \cup {[kind |-> "Triangle", param |-> [a |-> a, b |-> b, c |-> c]] :
            a \in Vectors, b \in Vectors, c \in Vectors}
    \cup {[kind |-> "Trimesh", param |-> "none"],
          [kind |-> "Heightfield", param |-> "none"]}

\* The values of JointParamsDesc.
JointDescInputs ==
    {[kind |-> "BallJoint", local_anchor1 |-> a1, local_anchor2 |-> a2] :
        a1 \in Vectors, a2 \in Vectors}
    \cup {[kind |-> "FixedJoint",
           local_anchor1_translation |-> t1, local_anchor1_rotation |-> r1,
           local_anchor2_translation |-> t2, local_anchor2_rotation |-> r2] :
            t1 \in Vectors, r1 \in Rotations, t2 \in Vectors, r2 \in Rotations}
    \cup {[kind |-> k, local_anchor1 |-> a1, local_axis1 |-> x1,
           local_anchor2 |-> a2, local_axis2 |-> x2] :
            k \in {"PrismaticJoint", "RevoluteJoint"},
            a1 \in Vectors, x1 \in Vectors, a2 \in Vectors, x2 \in Vectors}

\* impl Into<JointParams> for JointParamsDesc
into_joint_params(v) ==
    CASE v.kind = "BallJoint" ->
            [kind |-> "BallJoint",
             local_anchor1 |-> v.local_anchor1, local_anchor2 |-> v.local_anchor2]
      [] v.kind = "FixedJoint" ->
            [kind |-> "FixedJoint",
             local_anchor1 |-> [translation |-> v.local_anchor1_translation,
                                rotation |-> v.local_anchor1_rotation],
             local_anchor2 |-> [translation |-> v.local_anchor2_translation,
                                rotation |-> v.local_anchor2_rotation]]
      [] v.kind = "PrismaticJoint" ->
            [kind |-> "PrismaticJoint",
             local_anchor1 |-> v.local_anchor1,
             local_axis1 |-> new_normalize(v.local_axis1),
             local_tangent1 |-> "default",
             local_anchor2 |-> v.local_anchor2,
             local_axis2 |-> new_normalize(v.local_axis2),
             local_tangent2 |-> "default"]
      [] v.kind = "RevoluteJoint" ->
            [kind |-> "RevoluteJoint",
             local_anchor1 |-> v.local_anchor1,
             local_axis1 |-> new_normalize(v.local_axis1),
             local_anchor2 |-> v.local_anchor2,
             local_axis2 |-> new_normalize(v.local_axis2)]

\* JointParamsDesc::from_params
from_params(v) ==
    CASE v.kind = "BallJoint" ->
            [kind |-> "BallJoint",
             local_anchor1 |-> v.local_anchor1, local_anchor2 |-> v.local_anchor2]
      [] v.kind = "FixedJoint" ->
            [kind |-> "FixedJoint",
             local_anchor1_translation |-> v.local_anchor1.translation,
             local_anchor1_rotation |-> v.local_anchor1.rotation,
             local_anchor2_translation |-> v.local_anchor2.translation,
             local_anchor2_rotation |-> v.local_anchor2.rotation]
      [] v.kind \in {"PrismaticJoint", "RevoluteJoint"} ->
            [kind |-> v.kind,
             local_anchor1 |-> v.local_anchor1, local_axis1 |-> v.local_axis1,
             local_anchor2 |-> v.local_anchor2, local_axis2 |-> v.local_axis2]

InitConvert ==
    /\ bodies = EmptyArena
    /\ colliders = EmptyArena
    /\ joints = EmptyJointSet
    /\ body_handle_map = EmptyMap
    /\ collider_handle_map = EmptyMap
    /\ joint_handle_map = EmptyMap
    /\ desc = {}
    /\ uuid = [body |-> 0, collider |-> 0, joint |-> 0]
    /\ panic = "none"
    /\ resolved = FALSE
    /\ minted = [body |-> {}, collider |-> {}, joint |-> {}]
    /\ live = [bodies |-> {}, colliders |-> {}, joints |-> {},
               cascaded_colliders |-> {}, cascaded_joints |-> {}]
    /\ embedded_resources = << >>
    /\ target_binder = EmptyMap
    /\ query = {}
    /\ output \in {{[op |-> "shape_desc", data |-> d]} : d \in ShapeDescInputs}
                  \cup {{[op |-> "joint_desc", data |-> d]} : d \in JointDescInputs}

\* ColliderShapeDesc::from_collider_shape(desc.into_collider_shape())
shape_round_trip ==
    /\ \E o \in output :
        /\ o.op = "shape_desc"
        /\ output' = {[op |-> "shape_round_trip",
                       data |-> [desc |-> o.data,
                                 shape |-> into_collider_shape(o.data),
                                 back |-> from_collider_shape(into_collider_shape(o.data))]]}
    /\ WireUnchanged

\* JointParamsDesc::from_params(&desc.into())
joint_round_trip ==
    /\ \E o \in output :
        /\ o.op = "joint_desc"
        /\ output' = {[op |-> "joint_round_trip",
                       data |-> [desc |-> o.data,
                                 params |-> into_joint_params(o.data),
                                 back |-> from_params(into_joint_params(o.data))]]}
    /\ WireUnchanged

NextConvert == shape_round_trip \/ joint_round_trip

SpecConvert == InitConvert /\ [][NextConvert]_vars

-----------------------------------------------------------------------------
(* IntegrationParametersDesc and its Visit.                                 *)

\* The f32 and u32 fields of IntegrationParametersDesc other than
\* min_island_size, in the order of the struct.
ParamFields ==
    << "dt", "erp", "min_ccd_dt", "joint_erp", "warmstart_coeff",
       "warmstart_correction_slope", "velocity_solve_fraction", "velocity_based_erp",
       "allowed_linear_error", "prediction_distance", "allowed_angular_error",
       "max_linear_correction", "max_angular_correction", "max_velocity_iterations",
       "max_position_iterations", "max_ccd_substeps" >>

ParamFieldSet == {ParamFields[i] : i \in 1..Len(ParamFields)}

\* The value visit gives min_island_size when it finds zero; it is also the
\* value of IntegrationParameters::default().
DefaultMinIslandSize == 128

\* IntegrationParametersDesc::default(): every field holds the value of
\* IntegrationParameters::default().
IntegrationParametersDescDefault ==
    [f \in ParamFieldSet \cup {"min_island_size"} |->
        IF f = "min_island_size" THEN DefaultMinIslandSize ELSE "default"]

\* Descriptors in which up to two fields differ from the default, with a
\* zero, a small or the default island size.
IntegrationParametersDescs ==
    {[f \in ParamFieldSet \cup {"min_island_size"} |->
        IF f = "min_island_size" THEN m
        ELSE IF f \in changed THEN "other" ELSE "default"] :
        changed \in {s \in SUBSET ParamFieldSet : Cardinality(s) <= 2},
        m \in {0, 1, DefaultMinIslandSize}}

\* The fields that visit passes to the visitor, by field of the struct.
VisitedParamFields ==
    {"dt", "min_ccd_dt", "erp", "joint_erp", "warmstart_coeff",
     "warmstart_correction_slope", "velocity_solve_fraction", "velocity_based_erp",
     "allowed_linear_error", "max_linear_correction", "max_angular_correction",
     "max_velocity_iterations", "max_position_iterations", "min_island_size",
     "max_ccd_substeps"}

\* "TODO: Remove": a zero min_island_size becomes 128 after the fields were
\* visited.
MinIslandSizeFix(d) ==
    IF d.min_island_size = 0
    THEN [d EXCEPT !.min_island_size = DefaultMinIslandSize]
    ELSE d

\* visit in write mode: the region written, and the descriptor afterwards.
\* The zero check runs after the fields were visited in either mode, so a
\* written descriptor with a zero min_island_size holds 128 afterwards
\* while the region holds the zero.
IntegrationParametersVisitWrite(d) ==
    [region |-> [f \in VisitedParamFields |-> d[f]],
     self |-> MinIslandSizeFix(d)]

\* visit in read mode on the descriptor self, which Default built: the
\* fields of the region are stored, the other fields keep their value.
IntegrationParametersVisitRead(self, region) ==
    MinIslandSizeFix([f \in DOMAIN self |->
                        IF f \in DOMAIN region THEN region[f] ELSE self[f]])

InitParams ==
    /\ bodies = EmptyArena
    /\ colliders = EmptyArena
    /\ joints = EmptyJointSet
    /\ body_handle_map = EmptyMap
    /\ collider_handle_map = EmptyMap
    /\ joint_handle_map = EmptyMap
    /\ desc = {}
    /\ uuid = [body |-> 0, collider |-> 0, joint |-> 0]
    /\ panic = "none"
    /\ resolved = FALSE
    /\ minted = [body |-> {}, collider |-> {}, joint |-> {}]
    /\ live = [bodies |-> {}, colliders |-> {}, joints |-> {},
               cascaded_colliders |-> {}, cascaded_joints |-> {}]
    /\ embedded_resources = << >>
    /\ target_binder = EmptyMap
    /\ query = {}
    /\ output \in {{[op |-> "integration_parameters", data |-> d]} :
                        d \in IntegrationParametersDescs}

\* A descriptor is written through a visitor and read back into a default
\* descriptor: source is the descriptor before the write, desc the same
\* descriptor after it.
params_round_trip ==
    /\ \E o \in output :
        /\ o.op = "integration_parameters"
        /\ LET w == IntegrationParametersVisitWrite(o.data)
           IN  output' = {[op |-> "params_round_trip",
                           data |-> [source |-> o.data,
                                     desc |-> w.self,
                                     written |-> w.region,
                                     read |-> IntegrationParametersVisitRead(
                                                IntegrationParametersDescDefault,
                                                w.region)]]}
    /\ WireUnchanged

NextParams == params_round_trip

SpecParams == InitParams /\ [][NextParams]_vars

-----------------------------------------------------------------------------
(* Gravity and integration parameters through generate_desc, resolve and   *)
(* deep_copy.                                                               *)

\* Physics::new: gravity is (0.0, -9.81, 0.0), here in hundredths.
DefaultGravity == << 0, 0 - 981, 0 >>

\* Gravity vectors a host may set; the field is public.
Gravities == {DefaultGravity, << 0, 0, 0 >>, << 0, 0 - 162, 0 >>}

\* impl From<IntegrationParameters> for IntegrationParametersDesc: each
\* field is copied.
IntegrationParametersDescFrom(params) == [f \in DOMAIN params |-> params[f]]

\* impl Into<IntegrationParameters> for IntegrationParametersDesc: each
\* field is copied.
IntegrationParametersInto(d) == [f \in DOMAIN d |-> d[f]]

\* The gravity and the integration parameters of Physics::new().
NewPhysicsSettings ==
    [gravity |-> DefaultGravity,
     integration_parameters |-> IntegrationParametersInto(IntegrationParametersDescDefault)]

\* The gravity and integration_parameters fields of the PhysicsDesc that
\* generate_desc builds.
generate_desc_settings(phys) ==
    [integration_parameters |-> IntegrationParametersDescFrom(phys.integration_parameters),
     gravity |-> phys.gravity]

\* What resolve does to the gravity and the integration parameters of the
\* world: the parameters are taken from the descriptor set, the gravity of
\* the world is not assigned.
resolve_settings(phys, phys_desc) ==
    [phys EXCEPT !.integration_parameters =
                    IntegrationParametersInto(phys_desc.integration_parameters)]

\* Physics::deep_copy, for the gravity and the integration parameters.
deep_copy_settings(phys) ==
    resolve_settings(NewPhysicsSettings, generate_desc_settings(phys))

InitSettings ==
    /\ bodies = EmptyArena
    /\ colliders = EmptyArena
    /\ joints = EmptyJointSet
    /\ body_handle_map = EmptyMap
    /\ collider_handle_map = EmptyMap
    /\ joint_handle_map = EmptyMap
    /\ desc = {}
    /\ uuid = [body |-> 0, collider |-> 0, joint |-> 0]
    /\ panic = "none"
    /\ resolved = FALSE
    /\ minted = [body |-> {}, collider |-> {}, joint |-> {}]
    /\ live = [bodies |-> {}, colliders |-> {}, joints |-> {},
               cascaded_colliders |-> {}, cascaded_joints |-> {}]
    /\ embedded_resources = << >>
    /\ target_binder = EmptyMap
    /\ query = {}
    /\ output \in {{[op |-> "settings",
                     data |-> [gravity |-> g,
                               integration_parameters |-> IntegrationParametersInto(d)]]} :
                        g \in Gravities,
                        d \in IntegrationParametersDescs}

\* generate_desc of the source world, then resolve of a new world that
\* holds the generated descriptor set.
generate_then_resolve_settings ==
    /\ \E o \in output :
        /\ o.op = "settings"
        /\ output' = {[op |-> "generate_then_resolve",
                       data |-> [source |-> o.data,
                                 phys_desc |-> generate_desc_settings(o.data),
                                 result |-> resolve_settings(NewPhysicsSettings,
                                                generate_desc_settings(o.data))]]}
    /\ WireUnchanged

\* deep_copy of the source world.
call_deep_copy_settings ==
    /\ \E o \in output :
        /\ o.op = "settings"
        /\ output' = {[op |-> "deep_copy",
                       data |-> [source |-> o.data,
                                 phys_desc |-> generate_desc_settings(o.data),
                                 result |-> deep_copy_settings(o.data)]]}
    /\ WireUnchanged

NextSettings == generate_then_resolve_settings \/ call_deep_copy_settings

SpecSettings == InitSettings /\ [][NextSettings]_vars

-----------------------------------------------------------------------------
(* The add / remove operations on bodies and joints alone, with room for a  *)
(* joint slot to be reused after remove_body.                               *)

\* Number of engine handles that may be minted in such a run.
MaxReuseUuids == 5

NextReuse ==
    \/ \E s \in RayBodyStates : Minted < MaxReuseUuids /\ add_body_call(s)
    \/ \E h \in 1..MaxReuseUuids : remove_body(h)
    \/ \E s \in RayShapeInputs, h \in 1..MaxReuseUuids :
            Minted < MaxReuseUuids /\ add_collider_call(ColliderBuilder(s), h)
    \/ \E h \in 1..MaxReuseUuids : remove_collider(h)
    \/ \E h1 \in 1..MaxReuseUuids : \E h2 \in 1..MaxReuseUuids :
        \E p \in JointParamInputs :
            Minted < MaxReuseUuids /\ add_joint_call(h1, h2, p)
    \/ \E h \in 1..MaxReuseUuids : remove_joint(h)

SpecReuse == Init /\ [][NextReuse]_vars

-----------------------------------------------------------------------------
(* The add / remove operations, deep_copy (generate_desc and resolve) and   *)
(* embed_resource together, with step and the &mut RigidBody accessors.     *)
(* Colliders keep the attributes they were built with: collider_mut writes  *)
(* no parent, collider list or table.                                       *)

\* Number of engine handles the add operations may mint by themselves;
\* embed_resource mints up to MaxUuids.
MaxWorldUuids == 3

NextWorld ==
    \/ \E s \in RayBodyStates : Minted < MaxWorldUuids /\ add_body(s)
    \/ \E h \in BodyIds : remove_body(h)
    \/ \E s \in ShapeInputs, h \in BodyIds : Minted < MaxWorldUuids /\ add_collider(ColliderBuilder(s), h)
    \/ \E h \in ColliderIds : remove_collider(h)
    \/ \E h1 \in BodyIds : \E h2 \in BodyIds : \E p \in JointParamInputs :
            Minted < MaxWorldUuids /\ add_joint(h1, h2, p)
    \/ \E h \in JointIds : remove_joint(h)
    \/ \E s \in RayBodyStates : Minted + 1 < MaxWorldUuids /\ mesh_to_trimesh(s)
    \/ \E bind \in Bindings : deep_copy(bind)
    \/ \E resource \in {ResourceTrimesh, ResourceTwoBodies, ResourceJoint} : \E nodes \in EmbedNodes(resource) :
            embed_resource(resource, nodes)
    \/ step
    \/ \E h \in BodyIds, st \in BodyStates : body_mut(h, st)
    \/ \E h \in RigidBodyHandles, st \in BodyStates : body_mut_rapier(h, st)

SpecWorld == Init /\ [][NextWorld]_vars

-----------------------------------------------------------------------------
(* Properties.                                                              *)

\* A table is injective both ways and its backward map mirrors its forward map.
Injective(m) ==
    /\ \A p, q \in m.fwd : (p[1] = q[1] \/ p[2] = q[2]) => p = q
    /\ m.bwd = {<< p[2], p[1] >> : p \in m.fwd}

\* Every solver handle of hs has exactly one engine handle in table m.
OneHandleEach(m, hs) ==
    \A h \in hs : Cardinality({p \in m.fwd : p[2] = h}) = 1 /\ key_of(m, h) # {}

\* The joint an engine handle resolves to through the joint table.
joint(handle) ==
    UNION {IF ArenaContains(joints.ids, h)
           THEN {joints.edges[ArenaValue(joints.ids, h) + 1]}
           ELSE {} : h \in value_of(joint_handle_map, handle)}

\* Every entry of every table names an entity that is live in the solver.
TablesLive ==
    /\ \A p \in body_handle_map.fwd : ArenaContains(bodies, p[2])
    /\ \A p \in collider_handle_map.fwd : ArenaContains(colliders, p[2])
    /\ \A p \in joint_handle_map.fwd : ArenaContains(joints.ids, p[2])

\* The world as seen through engine handles: counts, and for each engine
\* handle the defining state of the entity it resolves to.
View ==
    [counts |-> << ArenaLen(bodies), ArenaLen(colliders), Len(joints.edges) >>,
     bodies |-> UNION {{<< k, b.state >> : b \in body(k)} :
                        k \in Keys(body_handle_map)},
     colliders |-> UNION {{<< k, from_collider_shape(c.shape), collider_parent(k) >> :
                            c \in collider(k)} : k \in Keys(collider_handle_map)},
     joints |-> UNION {{<< k, key_of(body_handle_map, j.body1),
                           key_of(body_handle_map, j.body2), j.params >> :
                            j \in joint(k)} : k \in Keys(joint_handle_map)}]

\* The bodies that own a trimesh collider.
TrimeshOwners ==
    {k \in Keys(body_handle_map) :
        \E b \in body(k) : \E i \in 1..Len(b.colliders) :
            ArenaValue(colliders, b.colliders[i]).shape.kind = "Trimesh"}

\* C1: under add_body and remove_body (and every other operation) the body
\* table is injective in both directions and the solver handles it holds are
\* exactly the bodies live in the solver.
C1_BodyTableInjectiveAndExact ==
    /\ Injective(body_handle_map)
    /\ Values(body_handle_map) = ArenaHandleSet(bodies)

\* A body that occupies a slot freed by an earlier remove_body, next to the
\* handle of the removed body being gone from the table.
C1_Witness ==
    /\ \E p \in body_handle_map.fwd : p[2][2] > 0
    /\ minted.body \ Keys(body_handle_map) # {}

\* C2: in every state reached by add and remove operations alone, each live
\* body, collider and joint has exactly one engine handle in its own table.
C2_LiveEntitiesHaveOneHandle ==
    ~resolved =>
        /\ OneHandleEach(body_handle_map, ArenaHandleSet(bodies))
        /\ OneHandleEach(collider_handle_map, ArenaHandleSet(colliders))
        /\ OneHandleEach(joint_handle_map, JointHandleSet(joints))

\* Live entities of all three kinds, each added by its own call.
C2_Witness ==
    /\ ~resolved
    /\ ArenaLen(bodies) > 1 /\ ArenaLen(colliders) > 0 /\ Len(joints.edges) > 0
    /\ Keys(collider_handle_map) # {} /\ Keys(joint_handle_map) # {}

\* The colliders and joints attached to the body an engine handle names.
AttachedColliders(h) ==
    UNION {{b.colliders[i] : i \in 1..Len(b.colliders)} : b \in ArenaGet(bodies, h)}

AttachedJoints(h) ==
    {joints.edges[i].handle : i \in
        {n \in 1..Len(joints.edges) :
            joints.edges[n].body1 = h \/ joints.edges[n].body2 = h}}

\* C3: a remove_body that succeeds leaves the body's colliders and joints
\* not live, and no table entry whose solver handle is that of the body, of
\* one of its colliders or of one of its joints.
C3_RemoveBodyPurgesAllTables ==
    [][\A b \in BodyIds : \A h \in remove_body_lookup(b) :
          remove_body(b) =>
            /\ AttachedColliders(h) \cap ArenaHandleSet(colliders') = {}
            /\ AttachedJoints(h) \cap JointHandleSet(joints') = {}
            /\ h \notin Values(body_handle_map')
            /\ AttachedColliders(h) \cap Values(collider_handle_map') = {}
            /\ AttachedJoints(h) \cap Values(joint_handle_map') = {}]_vars

\* The table of one kind of entity.
TableOf(kind) ==
    IF kind = "body" THEN body_handle_map
    ELSE IF kind = "collider" THEN collider_handle_map ELSE joint_handle_map

\* C4: the engine handle an add call returns was returned by no earlier add
\* call of its kind, whether or not that entity still exists.
C4_AddMintsFreshHandle ==
    [][\A kind \in {"body", "collider", "joint"} :
          uuid'[kind] # uuid[kind] =>
            \E id \in Keys(TableOf(kind))' :
                /\ id \notin minted[kind]
                /\ minted'[kind] = minted[kind] \cup {id}]_vars

\* An entity added into a slot that a removed entity of its kind had used,
\* the removed entity's handle being one of those minted.
C4_Witness ==
    \E kind \in {"body", "collider", "joint"} :
        /\ \E p \in TableOf(kind).fwd : p[2][2] > 0
        /\ Cardinality(minted[kind]) >= 2

\* C5: a remove call whose engine handle is not in the table of its kind
\* returns nothing, does not panic, and changes neither the solver sets nor
\* any table.
C5_RemoveUnknownChangesNothing ==
    [][/\ \A h \in BodyIds :
            (h \notin Keys(body_handle_map) /\ remove_body(h)) =>
                remove_body_lookup(h) = {} /\ panic' = "none" /\ UNCHANGED world
       /\ \A h \in ColliderIds :
            (h \notin Keys(collider_handle_map) /\ remove_collider(h)) =>
                /\ \A x \in remove_collider_lookup(h) : ~ArenaContains(colliders, x)
                /\ panic' = "none" /\ UNCHANGED world
       /\ \A h \in JointIds :
            (h \notin Keys(joint_handle_map) /\ remove_joint(h)) =>
                /\ \A x \in remove_joint_lookup(h) : ~ArenaContains(joints.ids, x)
                /\ panic' = "none" /\ UNCHANGED world]_vars

\* A world that holds a body and a collider, the handle of a removed body
\* (no longer in the table) and handles of every kind that were never minted.
C5_Witness ==
    /\ panic = "none"
    /\ ArenaLen(bodies) > 0 /\ ArenaLen(colliders) > 0
    /\ (minted.body \ Keys(body_handle_map)) # {}
    /\ (BodyIds \ minted.body) # {}
    /\ (ColliderIds \ minted.collider) # {}
    /\ (JointIds \ minted.joint) # {}

\* C6: after add and remove operations alone, the accessors report a handle
\* present exactly when its entity was added and not removed since (by its
\* own remove call or with its body), and collider_parent names its body.
C6_AccessorsPresentIffLive ==
    ~resolved =>
        /\ \A h \in BodyIds : contains_body(h) <=> h \in live.bodies
        /\ \A h \in ColliderIds :
              /\ contains_collider(h) <=> \E c \in live.colliders : c[1] = h
              /\ collider_parent(h) = {c[2] : c \in {x \in live.colliders : x[1] = h}}

\* remove_body took colliders with it, another collider is still live, and
\* the removed ones are reported absent.
C6_Witness ==
    /\ ~resolved
    /\ live.cascaded_colliders # {}
    /\ live.colliders # {}
    /\ \A c \in live.cascaded_colliders :
            ~contains_collider(c) /\ collider_parent(c) = {}
    /\ \E b \in minted.body : ~contains_body(b)

\* C7: add_collider and add_joint never panic.
C7_AddIsHandleChecked == panic \notin {"add_collider", "add_joint"}

\* C8: for a world reached by add and remove operations alone, whose
\* trimesh-owning bodies are all bound to valid nodes, deep_copy
\* (generate_desc, then resolve on a fresh world) completes and yields a
\* world with the same counts and the same defining state behind every
\* engine handle.
C8_GenerateThenResolveIsEquivalent ==
    [][\A bind \in Bindings :
          (/\ ~resolved
           /\ \A b \in TrimeshOwners : bind[b] = "valid"
           /\ deep_copy(bind)) => (panic' = "none" /\ View' = View)]_vars

\* C9: when resolve has completed, every entry of the three restored tables
\* names an entity that is live in the solver.
C9_ResolvedHandlesAreLive ==
    [][\A bind \in Bindings :
          (deep_copy(bind) /\ panic' = "none") => TablesLive']_vars

\* The dense handles 0..n-1 with generation 0.
DenseRange(n) == {<< i, 0 >> : i \in 0..(n - 1)}

\* C10: in a descriptor set that generate_desc returns, each handle map has
\* the engine handles of the live table, its solver handles are 0..N-1 with
\* generation 0, and element i of each list describes the entity whose
\* engine handle is mapped to index i.
C10_DescHandlesAreDense ==
    generate_desc_ok =>
        \A d \in generate_desc :
            /\ Keys(d.body_handle_map) = Keys(body_handle_map)
            /\ Keys(d.collider_handle_map) = Keys(collider_handle_map)
            /\ Keys(d.joint_handle_map) = Keys(joint_handle_map)
            /\ Values(d.body_handle_map) = DenseRange(Len(d.bodies))
            /\ Values(d.collider_handle_map) = DenseRange(Len(d.colliders))
            /\ Values(d.joint_handle_map) = DenseRange(Len(d.joints))
            /\ \A i \in 1..ArenaLen(bodies) :
                  \A k \in key_of(body_handle_map, ArenaHandles(bodies)[i]) :
                        << k, << i - 1, 0 >> >> \in d.body_handle_map.fwd
            /\ \A i \in 1..ArenaLen(colliders) :
                  \A k \in key_of(collider_handle_map, ArenaHandles(colliders)[i]) :
                        << k, << i - 1, 0 >> >> \in d.collider_handle_map.fwd
            /\ \A i \in 1..Len(joints.edges) :
                  \A k \in key_of(joint_handle_map, joints.edges[i].handle) :
                        << k, << i - 1, 0 >> >> \in d.joint_handle_map.fwd
            /\ \A p \in d.body_handle_map.fwd :
                  /\ body(p[1]) # {}
                  /\ \A b \in body(p[1]) :
                        d.bodies[p[2][1] + 1] = from_body(b, collider_handle_map)
            /\ \A p \in d.collider_handle_map.fwd :
                  /\ collider(p[1]) # {}
                  /\ \A c \in collider(p[1]) :
                        d.colliders[p[2][1] + 1] = from_collider(c, body_handle_map)
            /\ \A p \in d.joint_handle_map.fwd :
                  /\ joint(p[1]) # {}
                  /\ \A j \in joint(p[1]) :
                        d.joints[p[2][1] + 1] = from_joint(j, body_handle_map)

\* generate_desc completes on a world whose body storage has a hole below a
\* live body and whose colliders and joints are not all in their first slot.
C10_Witness ==
    /\ generate_desc_ok
    /\ \E h \in ArenaHandleSet(bodies) : h[1] >= ArenaLen(bodies)
    /\ \E h \in ArenaHandleSet(colliders) \cup JointHandleSet(joints) : h[2] > 0

\* C11: a generate_desc call that returns changes neither the solver sets,
\* the three tables, the pending descriptor nor the embedded-resource list,
\* and a call that follows another with nothing in between returns the same
\* descriptor set.
C11_GenerateDescIsRepeatable ==
    [][(call_generate_desc /\ panic' = "none") =>
          /\ UNCHANGED << world, embedded_resources >>
          /\ \E d \in generate_desc : output' = {[op |-> "generate_desc", data |-> d]}
          /\ \A o \in output : o.op = "generate_desc" => output' = output]_vars

\* generate_desc has returned on a world that holds a pending descriptor
\* and whose body storage has a hole below a live body.
C11_Witness ==
    /\ \E o \in output : o.op = "generate_desc" /\ Len(o.data.bodies) > 0
    /\ desc # {}
    /\ \E h \in ArenaHandleSet(bodies) : h[1] >= ArenaLen(bodies)

\* The trimesh collider descriptors of d whose owning body has no node
\* bound, or a node that is not valid in the graph.
TrimeshUnbound(d, bind) ==
    {i \in 1..Len(d.colliders) :
        /\ d.colliders[i].shape.kind = "Trimesh"
        /\ bind[d.colliders[i].parent] # "valid"}

\* C12: a resolve that completes has inserted no collider for a trimesh
\* descriptor whose body has no node or an invalid node, has written one
\* error to the log for each of them, and has inserted every other
\* collider and every joint.
C12_ResolveSkipsAndLogsUnboundTrimesh ==
    [][\A bind \in Bindings :
          (deep_copy(bind) /\ panic' = "none") =>
            \A d \in generate_desc :
                LET r == resolve(NewPhysics, d, bind)
                IN  /\ r.skipped = Cardinality(TrimeshUnbound(d, bind))
                    /\ r.errors = Cardinality(TrimeshUnbound(d, bind))
                    /\ ArenaLen(colliders') = Len(d.colliders) - r.skipped
                    /\ Len(joints'.edges) = Len(d.joints)]_vars

\* The collider descriptors of d that resolve does not skip, in order.
TrimeshKept(d, bind) ==
    LET idx == SelectSeq([i \in 1..Len(d.colliders) |-> i],
                         LAMBDA i : i \notin TrimeshUnbound(d, bind))
    IN  [k \in 1..Len(idx) |-> d.colliders[idx[k]]]

\* C13: resolve of a generated descriptor set finds every body in place
\* when it inserts colliders and joints (it does not panic); each inserted
\* collider hangs on the live body its descriptor's parent handle maps to
\* in the restored body table, and each inserted joint connects the live
\* bodies its descriptor's body1 and body2 handles map to.
C13_ResolveBodiesThenCollidersThenJoints ==
    [][\A bind \in Bindings :
          (deep_copy(bind) /\ generate_desc_ok) =>
            /\ panic' = "none"
            /\ \A d \in generate_desc :
                LET kept == TrimeshKept(d, bind)
                    ch == ArenaHandles(colliders')
                IN  /\ ArenaLen(bodies') = Len(d.bodies)
                    /\ Len(ch) = Len(kept)
                    /\ \A i \in 1..Len(ch) :
                        LET c == ArenaValue(colliders', ch[i])
                        IN  /\ c.parent \in value_of(body_handle_map', kept[i].parent)
                            /\ ArenaContains(bodies', c.parent)
                            /\ InSeq(ArenaValue(bodies', c.parent).colliders, ch[i])
                    /\ Len(joints'.edges) = Len(d.joints)
                    /\ \A i \in 1..Len(d.joints) :
                        LET j == joints'.edges[i]
                        IN  /\ j.body1 \in value_of(body_handle_map', d.joints[i].body1)
                            /\ j.body2 \in value_of(body_handle_map', d.joints[i].body2)
                            /\ ArenaContains(bodies', j.body1)
                            /\ ArenaContains(bodies', j.body2)]_vars

\* A resolved world with two bodies, a collider on the second body and a
\* joint between the two.
C13_Witness ==
    /\ resolved /\ panic = "none"
    /\ ArenaLen(bodies) > 1
    /\ \E h \in ArenaHandleSet(colliders) : ArenaValue(colliders, h).parent[1] > 0
    /\ Len(joints.edges) > 0

\* C14: a visit in write mode that completes writes the descriptor set held
\* in desc when there is one, whatever the live state, and a set generated
\* from live state otherwise, and changes nothing in the world; a visit in
\* read mode of a new world leaves no live body, collider or joint and
\* empty tables, keeps the descriptor set it read as pending, and every
\* accessor reports absent.
C14_VisitWritesDescAndReadsPending ==
    [][/\ (visit_write /\ panic' = "none") =>
            /\ UNCHANGED << world, embedded_resources >>
            /\ \E o \in output' :
                /\ o.op = "visit"
                /\ o.data.embedded_resources = embedded_resources
                /\ o.data.desc \in
                     {PhysicsDescWrite(d) :
                        d \in IF desc # {} THEN desc ELSE generate_desc}
       /\ visit_read =>
            /\ ArenaLen(bodies') = 0 /\ ArenaLen(colliders') = 0
            /\ Len(joints'.edges) = 0
            /\ body_handle_map' = EmptyMap
            /\ collider_handle_map' = EmptyMap
            /\ joint_handle_map' = EmptyMap
            /\ desc' # {}
            /\ \A o \in output : \A d \in desc' : PhysicsDescWrite(d) = o.data.desc
            /\ \A h \in BodyIds : body(h)' = {}
            /\ \A h \in ColliderIds : collider(h)' = {} /\ collider_parent(h)' = {}]_vars

\* A world was saved from live state and read back; a body was added to the
\* unresolved world and it was saved again: what was written is the pending
\* descriptor set (it has a collider), not the live state (one body only).
C14_Witness ==
    /\ \E o \in output : o.op = "visit" /\ Len(o.data.desc.colliders) > 0
    /\ desc # {}
    /\ ArenaLen(bodies) > 0 /\ ArenaLen(colliders) = 0

\* The link that the embed of this step pushed.
PushedLink == embedded_resources'[Len(embedded_resources')]

\* The engine handles of the bodies of a resource.
ResourceBodies(resource) ==
    UNION {key_of(resource.body_handle_map, h) : h \in ArenaHandleSet(resource.bodies)}

\* The engine handle of the parent of a collider of a resource.
ResourceParent(resource, c) == key_of(resource.body_handle_map, c.parent)

\* The colliders of a resource for which embed inserts a collider, in the
\* order embed walks them: all but the trimeshes whose body is bound to a
\* node that is not valid in the target graph.
ResourceCollidersKept(resource, nodes) ==
    LET hs == ArenaHandles(resource.colliders)
        cs == [i \in 1..Len(hs) |-> ArenaValue(resource.colliders, hs[i])]
    IN  SelectSeq(cs, LAMBDA c :
            ~(/\ c.shape.kind = "Trimesh"
              /\ \E b \in ResourceParent(resource, c) : nodes[b] = "invalid"))

\* The name of the copy, made for the n-th embed, of the node bound to body
\* b of the resource.
RemappedNode(n, b) == "node" \o ToString(0 - b) \o "copy" \o ToString(n)

\* C15: an embed that completes leaves the host with as many more live
\* bodies as the resource has, and pushes a link whose body map sends each
\* body handle of the resource to a host handle of its own that was never
\* minted before and names a live host body.
C15_EmbedAddsOneBodyPerSourceBody ==
    [][\A resource \in Resources : \A nodes \in EmbedNodes(resource) :
          (embed_resource(resource, nodes) /\ panic' = "none") =>
            /\ Len(embedded_resources') = Len(embedded_resources) + 1
            /\ ArenaLen(bodies') = ArenaLen(bodies) + ArenaLen(resource.bodies)
            /\ {p[1] : p \in PushedLink.bodies} = ResourceBodies(resource)
            /\ Cardinality(PushedLink.bodies) = ArenaLen(resource.bodies)
            /\ Cardinality({p[2] : p \in PushedLink.bodies}) = ArenaLen(resource.bodies)
            /\ \A p \in PushedLink.bodies :
                /\ p[2] \notin minted.body
                /\ p[2] \notin Keys(body_handle_map)
                /\ body(p[2])' # {}]_vars

\* An embed of a resource with two bodies has completed in a host that has
\* a body of its own.
C15_Witness ==
    /\ panic = "none"
    /\ Len(embedded_resources) > 0
    /\ \E i \in 1..Len(embedded_resources) : Cardinality(embedded_resources[i].bodies) > 1
    /\ \E k \in Keys(body_handle_map) :
            \A i \in 1..Len(embedded_resources) :
                k \notin {p[2] : p \in embedded_resources[i].bodies}

\* C16: after an embed that completes, for every body of the resource that
\* the resource's binder binds to a node, the host binder binds the copy of
\* that node to the host body the link assigns to that body.
C16_EmbedRebindsRemappedNodes ==
    [][\A resource \in Resources : \A nodes \in EmbedNodes(resource) :
          (embed_resource(resource, nodes) /\ panic' = "none") =>
            \A b \in ResourceBodies(resource) :
                nodes[b] # "unbound" =>
                    /\ HashGet(PushedLink.bodies, b) # {}
                    /\ value_of(target_binder', RemappedNode(Len(embedded_resources'), b))
                            = HashGet(PushedLink.bodies, b)
                    /\ \A x \in HashGet(PushedLink.bodies, b) :
                            key_of(target_binder', x)
                                = {RemappedNode(Len(embedded_resources'), b)}]_vars

\* An embed has completed that bound two nodes, in a host whose binder
\* holds no node of the resource itself.
C16_Witness ==
    /\ panic = "none"
    /\ Len(embedded_resources) > 0
    /\ Cardinality(target_binder.fwd) > 1
    /\ \A p \in target_binder.fwd : \A b \in 1..MaxUuids : p[1] # ResourceNode(0 - b)

\* C17: an embed that completes has added one collider for each collider
\* of the resource it does not skip, and the k-th of them hangs on the host
\* body that the link assigns to the parent of the k-th such collider of
\* the resource: a body created by this embed, not one the host had before.
C17_EmbedAttachesCollidersThroughLink ==
    [][\A resource \in Resources : \A nodes \in EmbedNodes(resource) :
          (embed_resource(resource, nodes) /\ panic' = "none") =>
            LET kept == ResourceCollidersKept(resource, nodes)
            IN  /\ uuid'.collider = uuid.collider + Len(kept)
                /\ ArenaLen(colliders') = ArenaLen(colliders) + Len(kept)
                /\ \A k \in 1..Len(kept) : \A id \in {uuid.collider + k} :
                    /\ collider(id)' # {}
                    /\ collider_parent(id)' # {}
                    /\ collider_parent(id)' =
                         UNION {HashGet(PushedLink.bodies, b) :
                                    b \in ResourceParent(resource, kept[k])}
                    /\ \A x \in Keys(body_handle_map) : x \notin collider_parent(id)'
                    /\ \A h \in value_of(collider_handle_map', id) :
                         \A x \in collider_parent(id)' :
                            \A hb \in value_of(body_handle_map', x) :
                                InSeq(ArenaValue(bodies', hb).colliders, h)]_vars

\* The resource with a collider on its second body was embedded in a host
\* that has a body of its own: the new collider is on the third body.
C17_Witness ==
    /\ panic = "none"
    /\ Len(embedded_resources) > 0
    /\ ArenaLen(bodies) > 2
    /\ \E h \in ArenaHandleSet(colliders) : ArenaValue(colliders, h).parent[1] > 1

\* C18: when an embed that completes handles a trimesh collider of the
\* resource whose body is bound to a node with a valid copy in the target
\* graph, the collider it adds is a trimesh whose geometry is baked from
\* that copy; for the resource of one body with one trimesh collider the
\* host gains one body, which carries one collider.
C18_EmbedBakesTrimeshFromRemappedNode ==
    [][\A resource \in Resources : \A nodes \in EmbedNodes(resource) :
          (embed_resource(resource, nodes) /\ panic' = "none") =>
            LET kept == ResourceCollidersKept(resource, nodes)
            IN  /\ \A k \in 1..Len(kept) : \A id \in {uuid.collider + k} :
                    \A b \in ResourceParent(resource, kept[k]) :
                        (kept[k].shape.kind = "Trimesh" /\ nodes[b] = "valid") =>
                            /\ collider(id)' # {}
                            /\ \A c \in collider(id)' :
                                /\ c.shape.kind = "Trimesh"
                                /\ c.shape.geom = RemappedNode(Len(embedded_resources'), b)
                                /\ c.shape.geom # kept[k].shape.geom
                /\ (resource = ResourceTrimesh /\ \A b \in DOMAIN nodes : nodes[b] = "valid") =>
                    /\ ArenaLen(bodies') = ArenaLen(bodies) + 1
                    /\ ArenaLen(colliders') = ArenaLen(colliders) + 1
                    /\ \A p \in PushedLink.bodies : \A rb \in body(p[2])' :
                            Len(rb.colliders) = 1]_vars

\* A trimesh collider whose geometry was baked from the copy of a node of a
\* resource, in a host that has a body of its own.
C18_Witness ==
    /\ panic = "none"
    /\ \E h \in ArenaHandleSet(colliders) :
        /\ ArenaValue(colliders, h).shape.kind = "Trimesh"
        /\ ArenaValue(colliders, h).shape.geom = RemappedNode(1, ResourceUuid(1))
    /\ ArenaLen(bodies) > 1

\* The nodes of a resource all have an entry in old_to_new.
AllRemapped(nodes) == \A b \in DOMAIN nodes : nodes[b] # "unmapped"

\* C19: for every joint of the resource, embed inserts one joint into the
\* host that connects the host bodies the link assigns to the joint's two
\* bodies, and records the joint's engine handle with the new one in the
\* link's joint map, whatever bodies the host already holds.
C19_EmbedJoinsLinkedBodies ==
    [][\A resource \in Resources : \A nodes \in EmbedNodes(resource) :
          (embed_resource(resource, nodes) /\ AllRemapped(nodes)) =>
            /\ panic' = "none"
            /\ Len(embedded_resources') = Len(embedded_resources) + 1
            /\ Len(joints'.edges) = Len(joints.edges) + Len(resource.joints.edges)
            /\ \A i \in 1..Len(resource.joints.edges) : \A id \in {uuid.joint + i} :
                LET jt == resource.joints.edges[i]
                    a == UNION {HashGet(PushedLink.bodies, k) :
                                    k \in key_of(resource.body_handle_map, jt.body1)}
                    b == UNION {HashGet(PushedLink.bodies, k) :
                                    k \in key_of(resource.body_handle_map, jt.body2)}
                IN  /\ joint(id)' # {}
                    /\ \A e \in joint(id)' :
                        /\ {e.body1} = UNION {value_of(body_handle_map', x) : x \in a}
                        /\ {e.body2} = UNION {value_of(body_handle_map', x) : x \in b}
                    /\ \A k \in key_of(resource.joint_handle_map, jt.handle) :
                            HashGet(PushedLink.joints, k) = {id}]_vars

\* C20: when a node bound in the resource has no entry in old_to_new, embed
\* skips what it cannot resolve, still embeds every collider of the resource
\* and ends by appending the link; it never stops part-way.
C20_EmbedSkipsFailuresAndFinishes ==
    [][\A resource \in Resources : \A nodes \in EmbedNodes(resource) :
          (/\ embed_resource(resource, nodes)
           /\ resource.joints.edges = << >>
           /\ ~AllRemapped(nodes)) =>
            /\ panic' = "none"
            /\ Len(embedded_resources') = Len(embedded_resources) + 1
            /\ ArenaLen(colliders') = ArenaLen(colliders) + ArenaLen(resource.colliders)]_vars

\* The colliders of a resource other than the trimeshes whose body has no
\* node bound or is bound to a node that is not valid in the target graph.
ResourceCollidersResolvable(resource, nodes) ==
    LET hs == ArenaHandles(resource.colliders)
        cs == [i \in 1..Len(hs) |-> ArenaValue(resource.colliders, hs[i])]
    IN  SelectSeq(cs, LAMBDA c :
            ~(/\ c.shape.kind = "Trimesh"
              /\ \E b \in ResourceParent(resource, c) : nodes[b] # "valid"))

\* C21: an embed that completes adds no collider for a trimesh of the
\* resource whose body has no bound node or a node that is not valid in the
\* target graph: the host gains one collider for each other collider of the
\* resource only, and none of the colliders it gains carries the placeholder
\* geometry.
C21_EmbedSkipsTrimeshWithoutNode ==
    [][\A resource \in Resources : \A nodes \in EmbedNodes(resource) :
          (embed_resource(resource, nodes) /\ panic' = "none") =>
            /\ ArenaLen(colliders') =
                    ArenaLen(colliders) + Len(ResourceCollidersResolvable(resource, nodes))
            /\ \A id \in (uuid.collider + 1)..(uuid'.collider) :
                    \A c \in collider(id)' : c.shape.geom # "fake"]_vars

\* C22: an embed, whether it completes or stops part-way, keeps every
\* entry of the three tables and every live body, collider and joint of the
\* host, and every engine handle the host knew still reaches the same
\* entity; an embed that completes appends exactly one link and leaves the
\* links already in the list alone.
C22_EmbedOnlyAdds ==
    [][\A resource \in HostResources : \A nodes \in EmbedNodes(resource) :
          embed_resource(resource, nodes) =>
            /\ body_handle_map.fwd \subseteq body_handle_map'.fwd
            /\ collider_handle_map.fwd \subseteq collider_handle_map'.fwd
            /\ joint_handle_map.fwd \subseteq joint_handle_map'.fwd
            /\ \A h \in ArenaHandleSet(bodies) :
                    ArenaContains(bodies', h) /\ ArenaValue(bodies', h) = ArenaValue(bodies, h)
            /\ \A h \in ArenaHandleSet(colliders) :
                    ArenaContains(colliders', h)
                        /\ ArenaValue(colliders', h) = ArenaValue(colliders, h)
            /\ \A i \in 1..Len(joints.edges) :
                    i <= Len(joints'.edges) /\ joints'.edges[i] = joints.edges[i]
            /\ \A h \in Keys(body_handle_map) : body(h)' = body(h)
            /\ \A h \in Keys(collider_handle_map) :
                    collider(h)' = collider(h) /\ collider_parent(h)' = collider_parent(h)
            /\ \A h \in Keys(joint_handle_map) : joint(h)' = joint(h)
            /\ panic' = "none" =>
                /\ Len(embedded_resources') = Len(embedded_resources) + 1
                /\ \A i \in 1..Len(embedded_resources) :
                        embedded_resources'[i] = embedded_resources[i]]_vars

\* A host with two bodies and a joint of its own into which a resource was
\* embedded.
C22_Witness ==
    /\ panic = "none"
    /\ Len(embedded_resources) > 0
    /\ Len(joints.edges) > 0
    /\ ArenaLen(bodies) > 2

\* The result of the cast_ray call that has just returned, if any.
RayResults == {o.data : o \in {x \in output : x.op = "cast_ray"}}

\* C23: when cast_ray has returned, with either kind of storage, no stored
\* intersection is farther than max_len, and if sort_results was set the
\* stored intersections are in non-decreasing order of distance and are
\* the ones the callback pushed.
C23_CastRaySortedWithinMaxLen ==
    \A r \in RayResults :
        /\ \A i \in 1..Len(r.storage) : r.storage[i].toi <= r.opts.max_len
        /\ r.opts.sort_results =>
            /\ \A i \in 1..Len(r.storage) : \A j \in i..Len(r.storage) :
                    r.storage[i].toi <= r.storage[j].toi
            /\ Len(r.storage) = Len(r.pushed)
            /\ {r.storage[i] : i \in 1..Len(r.storage)} = {r.pushed[i] : i \in 1..Len(r.pushed)}

\* A sorted cast into a fixed-capacity storage that pushed a farther
\* intersection before a nearer one, with a max_len that some distance
\* exceeds.
C23_Witness ==
    \E r \in RayResults :
        /\ r.opts.sort_results /\ r.kind.type = "ArrayVec"
        /\ Len(r.pushed) > 1
        /\ r.pushed[1].toi > r.pushed[2].toi
        /\ r.opts.max_len < MaxToi

\* C24: cast_ray does not panic; a cast into the fixed-capacity storage
\* leaves at most CAP intersections in it, every push either stored its
\* intersection or was refused, a refusal happens only when the storage is
\* full, and the intersections stored before it are all still there.
C24_FixedStorageOverflowIsNotFatal ==
    /\ panic # "cast_ray"
    /\ \A r \in RayResults :
        /\ Len(r.pushed) = r.met - r.rejected
        /\ Len(r.storage) = Len(r.pushed)
        /\ r.kind.type = "ArrayVec" =>
            /\ Len(r.storage) <= r.kind.cap
            /\ r.rejected > 0 => Len(r.storage) = r.kind.cap
        /\ r.kind.type = "Vec" => r.rejected = 0

\* A cast into the fixed-capacity storage that met more colliders than the
\* storage holds.
C24_Witness ==
    \E r \in RayResults :
        /\ r.kind.type = "ArrayVec"
        /\ r.met > r.kind.cap
        /\ r.rejected > 0
        /\ Len(r.storage) = r.kind.cap

\* C25: between additions and removals of bodies and colliders, cast_ray
\* never panics, leaves in the tree exactly the colliders of the solver set,
\* and every intersection it returned names, by engine handle, a collider
\* that is live when the cast returns.
C25_CastRayReturnsLiveColliders ==
    /\ panic # "cast_ray"
    /\ \A r \in RayResults :
        /\ query = ArenaHandleSet(colliders)
        /\ \A i \in 1..Len(r.storage) :
            /\ contains_collider(r.storage[i].collider)
            /\ \E h \in query :
                    key_of(collider_handle_map, h) = {r.storage[i].collider}

\* A cast that returned an intersection after a collider was removed.
C25_Witness ==
    \E r \in RayResults :
        /\ Len(r.storage) > 0
        /\ \E id \in minted.collider : ~contains_collider(id)

\* The discriminants of what a visitor holds are all known ones.
KnownIds(held) ==
    /\ \A i \in 1..Len(held.bodies) : held.bodies[i] \in 0..2
    /\ \A i \in 1..Len(held.colliders) : held.colliders[i].id \in 0..9
    /\ \A i \in 1..Len(held.joints) : held.joints[i].id \in 0..3

\* C26: for each of the three descriptor enums, from_id of the id of a
\* variant is that variant, the ids are 0..9 for shapes, 0..3 for joint
\* parameters and 0..2 for statuses, and from_id of any other discriminant
\* is an error; reading a descriptor set fails exactly when the visitor
\* holds such a discriminant for some body, collider or joint, and a read
\* that succeeds yields for each of them the variant of its discriminant.
C26_EnumIdsRoundTripAndUnknownIsError ==
    /\ \A v \in ColliderShapeDescs :
            ColliderShapeDescFromId(ColliderShapeDescId(v)) = {v}
    /\ \A v \in JointParamsDescs : JointParamsDescFromId(JointParamsDescId(v)) = {v}
    /\ \A v \in BodyStatusDescs : BodyStatusDescFromId(BodyStatusDescId(v)) = {v}
    /\ {ColliderShapeDescId(v) : v \in ColliderShapeDescs} = 0..9
    /\ {JointParamsDescId(v) : v \in JointParamsDescs} = 0..3
    /\ {BodyStatusDescId(v) : v \in BodyStatusDescs} = 0..2
    /\ \A id \in ColliderShapeIds \ (0..9) : ColliderShapeDescFromId(id) = {}
    /\ \A id \in JointParamsIds \ (0..3) : JointParamsDescFromId(id) = {}
    /\ \A id \in BodyStatusIds \ (0..2) : BodyStatusDescFromId(id) = {}
    /\ \A o \in output :
        /\ o.op = "error" => ~KnownIds(o.data.held)
        /\ (o.op \in {"read", "desc"} /\ o.data.first # {}) =>
            /\ KnownIds(o.data.held)
            /\ Len(o.data.desc.bodies) = Len(o.data.held.bodies)
            /\ Len(o.data.desc.colliders) = Len(o.data.held.colliders)
            /\ Len(o.data.desc.joints) = Len(o.data.held.joints)
            /\ \A i \in 1..Len(o.data.held.bodies) :
                    BodyStatusDescId(o.data.desc.bodies[i]) = o.data.held.bodies[i]
            /\ \A i \in 1..Len(o.data.held.colliders) :
                    ColliderShapeDescId(o.data.desc.colliders[i].kind)
                        = o.data.held.colliders[i].id
            /\ \A i \in 1..Len(o.data.held.joints) :
                    JointParamsDescId(o.data.desc.joints[i].kind) = o.data.held.joints[i].id

\* A read that failed on the unknown discriminant of the second of two
\* colliders, every other discriminant being known.
C26_Witness ==
    \E o \in output :
        /\ o.op = "error"
        /\ Len(o.data.held.colliders) = 2
        /\ o.data.held.colliders[1].id = 0
        /\ o.data.held.colliders[2].id = 10
        /\ o.data.held.bodies[1] \in 0..2
        /\ o.data.held.joints[1].id \in 0..3

\* The handle map field of the kind is missing in what the visitor holds.
MapsMissing(held) ==
    {k \in {"body", "collider", "joint"} :
        CASE k = "body" -> held.body_handle_map = {}
          [] k = "collider" -> held.collider_handle_map = {}
          [] k = "joint" -> held.joint_handle_map = {}}

\* The table of a descriptor set for a kind, and the number of descriptors
\* of that kind.
DescTableOf(d, k) ==
    CASE k = "body" -> d.body_handle_map
      [] k = "collider" -> d.collider_handle_map
      [] k = "joint" -> d.joint_handle_map

DescCountOf(d, k) ==
    CASE k = "body" -> Len(d.bodies)
      [] k = "collider" -> Len(d.colliders)
      [] k = "joint" -> Len(d.joints)

\* C27: a read from a visitor in which a handle map field is missing does
\* not fail for that reason, and the table it yields for that kind has one
\* entry per descriptor of the kind, the entry of position i pairing the
\* handle made up from i with solver handle (i, 0); it is injective both
\* ways.
C27_MissingHandleMapIsSynthesized ==
    \A o \in output :
        /\ (o.op = "error" /\ KnownIds(o.data.held)) => MapsMissing(o.data.held) = {}
        /\ (o.op = "read") =>
            \A k \in MapsMissing(o.data.held) :
                LET t == DescTableOf(o.data.desc, k)
                    n == DescCountOf(o.data.desc, k)
                IN  /\ Cardinality(t.fwd) = n
                    /\ t.fwd = {<< FallbackUuid(i), << i, 0 >> >> : i \in 0..(n - 1)}
                    /\ Injective(t)
                    /\ \A i \in 0..(n - 1) :
                        /\ value_of(t, FallbackUuid(i)) = {<< i, 0 >>}
                        /\ key_of(t, << i, 0 >>) = {FallbackUuid(i)}

\* A read of a save without body and collider handle maps, with two bodies
\* and two colliders.
C27_Witness ==
    \E o \in output :
        /\ o.op = "read"
        /\ {"body", "collider"} \subseteq MapsMissing(o.data.held)
        /\ Len(o.data.desc.bodies) = 2
        /\ Len(o.data.desc.colliders) = 2
        /\ Cardinality(o.data.desc.body_handle_map.fwd) = 2

\* C28: when a descriptor set was written, read back and written again,
\* the visitor holds after the second write what it held after the first.
C28_WriteReadWriteIsIdentical ==
    \A o \in output :
        (o.op = "visitor" /\ o.data.written /\ o.data.first # {}) =>
            o.data.held \in o.data.first

\* The nodes of the subtree of root, root included.
RECURSIVE Subtree(_, _)
Subtree(graph, root) ==
    {root} \cup UNION {Subtree(graph, graph.children[root][i]) :
                            i \in 1..Len(graph.children[root])}

\* The triangles of the mesh nodes of the subtree of root.
SubtreeTriangles(graph, root) ==
    {<< h, k >> : h \in {n \in Subtree(graph, root) : graph.nodes[n].mesh},
                  k \in 1..Cardinality(TriCounts)} \cap
    UNION {{<< h, k >> : k \in 1..graph.nodes[h].tris} : h \in Subtree(graph, root)}

\* C29: make_trimesh on a root whose subtree holds no mesh node, or mesh
\* nodes without a triangle, returns the placeholder shape and writes one
\* warning, without panic; when the subtree holds a triangle it returns a
\* shape made of the triangles of every mesh node of the subtree, each
\* once, and writes no warning.
C29_MakeTrimeshPlaceholderOrEveryTriangle ==
    /\ panic = "none"
    /\ \A o \in output :
        o.op = "make_trimesh" =>
            LET tris == SubtreeTriangles(o.data.graph, o.data.root)
                r == o.data.result
            IN  /\ r.shape.kind = "Trimesh"
                /\ tris = {} => (r.shape.geom = "fake" /\ r.warnings = 1)
                /\ tris # {} =>
                    /\ r.warnings = 0
                    /\ r.shape.geom # "fake"
                    /\ {r.shape.geom[i] : i \in 1..Len(r.shape.geom)} = tris
                    /\ Len(r.shape.geom) = Cardinality(tris)

\* make_trimesh returned the placeholder for a root with a child that is a
\* mesh without triangles.
C29_Witness ==
    \E o \in output :
        /\ o.op = "make_trimesh"
        /\ o.data.result.shape.geom = "fake"
        /\ o.data.result.warnings = 1
        /\ ~o.data.graph.nodes[o.data.root].mesh
        /\ \E i \in 1..Len(o.data.graph.children[o.data.root]) :
                o.data.graph.nodes[o.data.graph.children[o.data.root][i]].mesh

\* C30: a shape descriptor converted to a live shape and back has the same
\* variant, and the same parameters unless it is a trimesh or a
\* heightfield; joint parameters converted to live joint parameters and
\* back have the same variant and the same stored parameters.
C30_DescriptorsRoundTrip ==
    \A o \in output :
        /\ o.op = "shape_round_trip" =>
            /\ o.data.back.kind = o.data.desc.kind
            /\ o.data.desc.kind \notin {"Trimesh", "Heightfield"} =>
                    o.data.back.param = o.data.desc.param
        /\ o.op = "joint_round_trip" => o.data.back = o.data.desc

\* C31: in every state reached by the add and remove operations,
\* generate_desc completes: every entry of the three tables names a solver
\* handle of the dense map built from the live set, and no descriptor
\* conversion fails; also after remove_body removed a body with a joint.
C31_GenerateDescCompletesAfterCrud ==
    (~resolved /\ ~aborted) =>
        /\ DenseOk(ArenaHandles(bodies), body_handle_map)
        /\ DenseOk(ArenaHandles(colliders), collider_handle_map)
        /\ DenseOk(JointHandles(joints), joint_handle_map)
        /\ generate_desc_ok

\* C32: when resolve skips a trimesh collider descriptor, every collider
\* descriptor after it that is not skipped keeps its own engine handle:
\* the handle saved with the descriptor at position p resolves, in the
\* restored table, to the collider that resolve built from that descriptor.
C32_ResolveKeepsHandlesAfterSkippedTrimesh ==
    [][\A bind \in Bindings :
          (deep_copy(bind) /\ generate_desc_ok /\ panic' = "none") =>
            \A d \in generate_desc :
                LET skipped == TrimeshUnbound(d, bind)
                    ch == ArenaHandles(colliders')
                IN  \A p \in 1..Len(d.colliders) :
                        (p \notin skipped /\ \E k \in skipped : k < p) =>
                            \A e \in key_of(d.collider_handle_map, << p - 1, 0 >>) :
                                value_of(collider_handle_map', e) =
                                    {ch[p - Cardinality({k \in skipped : k < p})]}]_vars

\* C33: every entry of the collider map of the link that an embed pushes
\* has a collider handle of the resource as key and, as value, the handle
\* of a host collider that this embed created; for trimeshes as for every
\* other shape.
C33_LinkCollidersMapResourceToHost ==
    [][\A resource \in Resources : \A nodes \in EmbedNodes(resource) :
          (embed_resource(resource, nodes) /\ panic' = "none") =>
            \A p \in PushedLink.colliders :
                /\ p[1] \in Keys(resource.collider_handle_map)
                /\ p[2] \notin Keys(collider_handle_map)
                /\ \A id \in {p[2]} : collider(id)' # {}]_vars

\* C34: an IntegrationParametersDesc whose min_island_size is not zero,
\* written through the visitor and read back, has the same value in each
\* of its 17 fields, prediction_distance and allowed_angular_error included.
C34_IntegrationParametersRoundTrip ==
    \A o \in output :
        (o.op = "params_round_trip" /\ o.data.source.min_island_size # 0) =>
            \A f \in DOMAIN o.data.source : o.data.read[f] = o.data.source[f]

\* C35: the world that resolve builds from generate_desc of a source world,
\* and the world that deep_copy returns, have the gravity and the
\* integration parameters of the source, also when the gravity of the
\* source is not the default.
C35_CopyKeepsGravityAndParameters ==
    \A o \in output :
        o.op \in {"generate_then_resolve", "deep_copy"} =>
            /\ o.data.result.gravity = o.data.source.gravity
            /\ o.data.result.integration_parameters = o.data.source.integration_parameters

\* C36: resolve completes only on a world without live bodies and
\* colliders that holds a pending descriptor set, and leaves no pending
\* set; a pending set only appears by deserialization; on a world with no
\* pending set, as after a resolve, or with live bodies or colliders,
\* resolve aborts and leaves the tables, the solver sets and the pending
\* set as they were; and a serialization after a resolve writes a
\* descriptor set generated from live state.
C36_ResolveConsumesPendingOnce ==
    [][/\ (call_resolve /\ panic' = "none") =>
            (resolve_accepts /\ desc' = {})
       /\ (desc = {} /\ desc' # {}) => visit_read
       /\ (call_resolve /\ ~resolve_accepts) =>
            (panic' = "resolve" /\ UNCHANGED world)
       /\ (visit_write /\ desc = {} /\ panic' = "none") =>
            \E d \in generate_desc :
                output' = {[op |-> "visit",
                            data |-> [desc |-> PhysicsDescWrite(d),
                                      embedded_resources |-> embedded_resources]]}]_vars

\* A world was read, resolved into a world with a body, and a second
\* resolve was rejected.
C36_Witness ==
    /\ panic = "resolve"
    /\ resolved
    /\ desc = {}
    /\ ArenaLen(bodies) > 0
    /\ TablesLive

\* The engine handles that were minted for an entity that has since been
\* removed, by its own remove call or with its body.
StaleHandles ==
    [body |-> minted.body \ live.bodies,
     collider |-> minted.collider \ {c[1] : c \in live.colliders},
     joint |-> minted.joint \ {j[1] : j \in live.joints}]

\* C37: after add and remove operations, also when the solver has reused
\* freed slots, an engine handle minted for a removed entity is absent from
\* its table or maps to a solver handle that names no live entity, so that
\* body, collider and the joint table lookup never resolve it to the
\* entity that took the slot.
C37_StaleHandlesNeverResolve ==
    ~resolved =>
        /\ \A h \in StaleHandles.body :
            /\ \A sh \in value_of(body_handle_map, h) : ~ArenaContains(bodies, sh)
            /\ body(h) = {}
        /\ \A h \in StaleHandles.collider :
            /\ \A sh \in value_of(collider_handle_map, h) : ~ArenaContains(colliders, sh)
            /\ collider(h) = {}
        /\ \A h \in StaleHandles.joint :
            \A sh \in value_of(joint_handle_map, h) : ~ArenaContains(joints.ids, sh)

\* remove_body took a joint with it and left the joint's entry in the
\* table; a new joint now holds the slot the entry points to.
C37_Witness ==
    /\ ~resolved
    /\ panic = "none"
    /\ \E h \in StaleHandles.joint :
        \E sh \in value_of(joint_handle_map, h) :
            \E lh \in JointHandleSet(joints) : lh[1] = sh[1] /\ lh[2] # sh[2]

\* C38: in every state reached by the add and remove operations, resolve
\* and embed, the parent of every live collider is a live body with an
\* engine handle in the body table, and so are the two bodies of every
\* live joint; so the parent lookup of draw, the conversions of
\* generate_desc and collider_parent find the body they look for.
C38_ParentsAndEndpointsAreLive ==
    /\ \A h \in ArenaHandleSet(colliders) :
        /\ ArenaContains(bodies, ArenaValue(colliders, h).parent)
        /\ from_collider_ok(ArenaValue(colliders, h), body_handle_map)
    /\ \A i \in 1..Len(joints.edges) :
        /\ ArenaContains(bodies, joints.edges[i].body1)
        /\ ArenaContains(bodies, joints.edges[i].body2)
        /\ from_joint_ok(joints.edges[i], body_handle_map)
    /\ \A k \in Keys(collider_handle_map) :
        contains_collider(k) => collider_parent(k) # {}

\* A world that received an embedded resource and was copied through
\* resolve; a body was removed afterwards, and two bodies or more and a
\* collider are live.
C38_Witness ==
    /\ panic = "none"
    /\ resolved
    /\ Len(embedded_resources) > 0
    /\ ArenaLen(bodies) > 1
    /\ ArenaLen(colliders) > 0
    /\ \E b \in minted.body : ~contains_body(b)

====
